---- MODULE Spec2Model ----
(***************************************************************************)
(* Model of src/configservice.js: the ConfigService singleton.  One        *)
(* in-memory document (this._config) that is loaded from and saved to      *)
(* files, addressed through dotted/bracket paths, and reloaded by a        *)
(* debounced file watch.                                                   *)
(*                                                                         *)
(* Spec is the whole service as a state machine.  The properties are       *)
(* checked under three parts of it, each with the calls that bear on them: *)
(*   WatchSpec  watchConfig, unwatchConfig, the fs.watch handler, the      *)
(*              debounce timer and the reload it starts;                   *)
(*   LoadSpec   direct loadConfig calls, with setConfig and getConfig;     *)
(*   PathSpec   _parsePath / getConfig / setConfig applied to documents,   *)
(*              path strings and values drawn from bounded sets.           *)
(***************************************************************************)
EXTENDS Integers, Sequences, FiniteSets, TLC

(***************************************************************************)
(* JavaScript values.  Every value is a record of one shape so that any    *)
(* two values can be compared:                                             *)
(*   t  the kind: "undefined", "null", "boolean", "number", "string",      *)
(*      "object" (a plain mapping) or "array"                              *)
(*   n  the number (or 0/1 of a boolean)                                   *)
(*   s  the string, as a sequence of characters                            *)
(*   m  the own named properties: a function from property names to values *)
(*   e  the elements of an array, in order                                 *)
(* A string is a sequence of characters; a run of letters that the code    *)
(* never looks into (such as "arr") is written as one character.           *)
(***************************************************************************)
Undefined == [t |-> "undefined", n |-> 0, s |-> <<>>, m |-> <<>>, e |-> <<>>]
Null == [t |-> "null", n |-> 0, s |-> <<>>, m |-> <<>>, e |-> <<>>]
Num(i) == [t |-> "number", n |-> i, s |-> <<>>, m |-> <<>>, e |-> <<>>]
Str(chars) == [t |-> "string", n |-> 0, s |-> chars, m |-> <<>>, e |-> <<>>]
Obj(props) == [t |-> "object", n |-> 0, s |-> <<>>, m |-> props, e |-> <<>>]
ArrP(elems, props) == [t |-> "array", n |-> 0, s |-> <<>>, m |-> props, e |-> elems]
Arr(elems) == ArrP(elems, <<>>)
EmptyObj == Obj(<<>>)
EmptyArr == Arr(<<>>)

\* !v is false
Truthy(v) ==
    \/ v.t \in {"object", "array"}
    \/ v.t = "number" /\ v.n # 0
    \/ v.t = "string" /\ v.s # <<>>
    \/ v.t = "boolean" /\ v.n = 1

\* typeof v === 'object'
TypeofObject(v) == v.t \in {"object", "array", "null"}

\* Array.isArray(v)
IsArray(v) == v.t = "array"

Digits == {"0", "1", "2", "3", "4", "5", "6", "7", "8", "9"}

DigitVal(c) ==
    CASE c = "0" -> 0 [] c = "1" -> 1 [] c = "2" -> 2 [] c = "3" -> 3
      [] c = "4" -> 4 [] c = "5" -> 5 [] c = "6" -> 6 [] c = "7" -> 7
      [] c = "8" -> 8 [] c = "9" -> 9

DigitChar(d) ==
    CASE d = 0 -> "0" [] d = 1 -> "1" [] d = 2 -> "2" [] d = 3 -> "3"
      [] d = 4 -> "4" [] d = 5 -> "5" [] d = 6 -> "6" [] d = 7 -> "7"
      [] d = 8 -> "8" [] d = 9 -> "9"

AllDigits(chars) == chars # <<>> /\ \A i \in 1..Len(chars) : chars[i] \in Digits

\* Number("007") = 7: the decimal value of a run of digits
RECURSIVE DecimalValue(_)
DecimalValue(chars) ==
    IF chars = <<>> THEN 0
    ELSE 10 * DecimalValue(SubSeq(chars, 1, Len(chars) - 1)) + DigitVal(chars[Len(chars)])

\* String(7) = "7"
RECURSIVE NumToStr(_)
NumToStr(i) ==
    IF i < 10 THEN <<DigitChar(i)>> ELSE Append(NumToStr(i \div 10), DigitChar(i % 10))

\* The property name a segment addresses: obj[0] and obj["0"] are the same property.
ToPropertyKey(seg) == IF seg.t = "number" THEN NumToStr(seg.n) ELSE seg.s

\* A property name that is an array index: digits with no leading zero.
IsIndexKey(key) == AllDigits(key) /\ (Len(key) = 1 \/ key[1] # "0")

LengthKey == <<"length">>

RECURSIVE StrLen(_)
StrLen(chars) == IF chars = <<>> THEN 0 ELSE Len(Head(chars)) + StrLen(Tail(chars))

\* v[seg] for a value v that is neither null nor undefined
GetProp(v, seg) ==
    LET key == ToPropertyKey(seg) IN
    CASE v.t = "object" -> IF key \in DOMAIN v.m THEN v.m[key] ELSE Undefined
      [] v.t = "array" ->
            IF IsIndexKey(key)
            THEN IF DecimalValue(key) < Len(v.e) THEN v.e[DecimalValue(key) + 1] ELSE Undefined
            ELSE IF key = LengthKey THEN Num(Len(v.e))
            ELSE IF key \in DOMAIN v.m THEN v.m[key] ELSE Undefined
      [] v.t = "string" ->
            IF IsIndexKey(key)
            THEN IF DecimalValue(key) < Len(v.s) THEN Str(<<v.s[DecimalValue(key) + 1]>>) ELSE Undefined
            ELSE IF key = LengthKey THEN Num(StrLen(v.s))
            ELSE Undefined
      [] OTHER -> Undefined

\* ToNumber(v) when it is an array length (a non-negative integer), -1 when it is not
\* (assigning such a value to the length of an array is a RangeError)
RECURSIVE ToLength(_)
ToLength(v) ==
    CASE v.t = "number" -> IF v.n >= 0 THEN v.n ELSE -1
      [] v.t = "string" -> IF v.s = <<>> THEN 0 ELSE IF AllDigits(v.s) THEN DecimalValue(v.s) ELSE -1
      [] v.t = "null" -> 0
      [] v.t = "boolean" -> v.n
      [] v.t = "array" /\ v.e = <<>> -> 0
      [] v.t = "array" /\ Len(v.e) = 1 ->
            IF v.e[1].t \in {"null", "undefined"} THEN 0
            ELSE IF v.e[1].t \in {"number", "string", "array"} THEN ToLength(v.e[1])
            ELSE -1
      [] OTHER -> -1

Holes(k) == [i \in 1..k |-> Undefined]

\* node[seg] = v could be carried out (node is a mapping or an array)
CanPutProp(node, seg, v) ==
    /\ node.t \in {"object", "array"}
    /\ (node.t = "array" /\ ToPropertyKey(seg) = LengthKey) => ToLength(v) >= 0

\* node[seg] = v, for a node and value with CanPutProp
PutProp(node, seg, v) ==
    LET key == ToPropertyKey(seg) IN
    IF node.t = "object" THEN [node EXCEPT !.m = (key :> v) @@ node.m]
    ELSE IF IsIndexKey(key)
         THEN LET i == DecimalValue(key) IN
              IF i < Len(node.e) THEN [node EXCEPT !.e[i + 1] = v]
              ELSE [node EXCEPT !.e = node.e \o Holes(i - Len(node.e)) \o <<v>>]
    ELSE IF key = LengthKey
         THEN LET k == ToLength(v) IN
              IF k <= Len(node.e) THEN [node EXCEPT !.e = SubSeq(node.e, 1, k)]
              ELSE [node EXCEPT !.e = node.e \o Holes(k - Len(node.e))]
    ELSE [node EXCEPT !.m = (key :> v) @@ node.m]

(***************************************************************************)
(* Path expressions.  A path string is a sequence of characters.           *)
(***************************************************************************)
Punct == {"[", ".", "]"}

\* the last index of the run of characters other than [ . ] that starts at i
\* (i - 1 when key[i] is one of them): the greedy [^[.\]]+
RECURSIVE IdentRunEnd(_, _)
IdentRunEnd(key, i) ==
    IF i <= Len(key) /\ key[i] \notin Punct THEN IdentRunEnd(key, i + 1) ELSE i - 1

\* the last index of the run of digits that starts at i: the greedy \d+
RECURSIVE DigitRunEnd(_, _)
DigitRunEnd(key, i) ==
    IF i <= Len(key) /\ key[i] \in Digits THEN DigitRunEnd(key, i + 1) ELSE i - 1

\* One match of /([^[.\]]+)|\[(\d+)\]/ looked for at position i: the matched segment
\* and the index after the match, or no match at i.
MatchAt(key, i) ==
    LET j == IdentRunEnd(key, i)
        d == DigitRunEnd(key, i + 1)
    IN  IF j >= i
        THEN [found |-> TRUE, seg |-> Str(SubSeq(key, i, j)), next |-> j + 1]
        ELSE IF key[i] = "[" /\ d >= i + 1 /\ d + 1 <= Len(key) /\ key[d + 1] = "]"
        THEN [found |-> TRUE, seg |-> Num(DecimalValue(SubSeq(key, i + 1, d))), next |-> d + 2]
        ELSE [found |-> FALSE, seg |-> Undefined, next |-> i + 1]

\* the loop of re.exec over the string, from position i
RECURSIVE ExecAll(_, _)
ExecAll(key, i) ==
    IF i > Len(key) THEN <<>>
    ELSE LET r == MatchAt(key, i) IN
         IF r.found THEN <<r.seg>> \o ExecAll(key, r.next) ELSE ExecAll(key, r.next)

\* ConfigService._parsePath
parsePath(key) == IF key = <<>> THEN <<>> ELSE ExecAll(key, 1)

\* the outcome of a call that raised
Thrown == [t |-> "thrown", n |-> 0, s |-> <<>>, m |-> <<>>, e |-> <<>>]

\* the expression v[seg]: reading a property of null or undefined is a TypeError
ReadProp(v, seg) == IF v.t \in {"null", "undefined"} THEN Thrown ELSE GetProp(v, seg)

\* the reduce step without `acc &&`
StepUnguarded(acc, k) == IF acc = Thrown THEN Thrown ELSE ReadProp(acc, k)

\* One step of the reduce in getConfig
Step(acc, k) ==
    IF Truthy(acc) /\ ReadProp(acc, k) # Undefined THEN ReadProp(acc, k) ELSE Undefined

RECURSIVE Reduce(_, _)
Reduce(acc, keys) == IF keys = <<>> THEN acc ELSE Reduce(Step(acc, Head(keys)), Tail(keys))

\* ConfigService.getConfig on the document doc
getConfig(doc, key) == IF key = <<>> THEN doc ELSE Reduce(doc, parsePath(key))

\* the test in the loop without `typeof obj[k] !== 'object'`: a truthy scalar is kept
NeedsContainerFalsyOnly(cur, nextK) ==
    IF nextK.t = "number" THEN ~IsArray(cur) ELSE ~Truthy(cur)

\* setConfig, the test in the loop: the node under k is overwritten by a new container
NeedsContainer(cur, nextK) ==
    IF nextK.t = "number" THEN ~IsArray(cur) ELSE ~Truthy(cur) \/ ~TypeofObject(cur)

NewContainer(nextK) == IF nextK.t = "number" THEN EmptyArr ELSE EmptyObj

\* setConfig from segment i on, at the node obj: ok is FALSE when a statement raised
\* (v is then the node as the statements before it left it).
RECURSIVE Assign(_, _, _, _)
Assign(obj, keys, i, value) ==
    IF obj.t \notin {"object", "array"} THEN [ok |-> FALSE, v |-> obj]
    ELSE IF i = Len(keys)
    THEN IF CanPutProp(obj, keys[i], value)
         THEN [ok |-> TRUE, v |-> PutProp(obj, keys[i], value)]
         ELSE [ok |-> FALSE, v |-> obj]
    ELSE LET k == keys[i]
             nextK == keys[i + 1]
             cur == GetProp(obj, k)
             fresh == NeedsContainer(cur, nextK)
         IN  IF fresh /\ ~CanPutProp(obj, k, NewContainer(nextK))
             THEN [ok |-> FALSE, v |-> obj]
             ELSE LET sub == Assign(IF fresh THEN NewContainer(nextK) ELSE cur, keys, i + 1, value)
                  IN  [ok |-> sub.ok, v |-> PutProp(obj, k, sub.v)]

\* setConfig without `if (keys.length === 0) return`: the final assignment is then
\* obj[keys[-1]] = value, which sets the property named "undefined"
setConfigNoReturn(doc, key, value) ==
    LET keys == parsePath(key)
        seg == Str(<<"undefined">>)
    IN  IF keys # <<>> THEN Assign(doc, keys, 1, value)
        ELSE IF CanPutProp(doc, seg, value) THEN [ok |-> TRUE, v |-> PutProp(doc, seg, value)]
        ELSE [ok |-> FALSE, v |-> doc]

\* ConfigService.setConfig on the document doc: the document afterwards, and whether
\* the call returned (ok) or raised
setConfig(doc, key, value) ==
    LET keys == parsePath(key) IN
    IF keys = <<>> THEN [ok |-> TRUE, v |-> doc] ELSE Assign(doc, keys, 1, value)

(***************************************************************************)
(* File paths.  A path is a record: whether it is absolute, its directory  *)
(* components, and the base name and extension of the file.                *)
(***************************************************************************)
Cwd == <<"app">>

\* directory components with "." dropped and ".." applied
RECURSIVE Normalize(_)
Normalize(dirs) ==
    IF dirs = <<>> THEN <<>>
    ELSE LET init == Normalize(SubSeq(dirs, 1, Len(dirs) - 1))
             d == dirs[Len(dirs)]
         IN  IF d = "." THEN init
             ELSE IF d = ".." THEN (IF init = <<>> THEN <<>> ELSE SubSeq(init, 1, Len(init) - 1))
             ELSE Append(init, d)

\* path.resolve(p)
Resolve(p) ==
    [abs |-> TRUE, dirs |-> Normalize(IF p.abs THEN p.dirs ELSE Cwd \o p.dirs),
     base |-> p.base, ext |-> p.ext]

\* String.prototype.toLowerCase on the extensions used
ToLowerCase(ext) == IF ext = ".JSON" THEN ".json" ELSE ext

Unsupported == "<unsupported>"

\* ConfigService._detectFormat: the format, or Unsupported where the code throws
detectFormat(filePath) ==
    LET ext == ToLowerCase(filePath.ext) IN
    CASE ext = ".json" -> "json"
      [] ext = ".ini" -> "ini"
      [] ext = ".xml" -> "xml"
      [] ext = ".csv" -> "csv"
      [] OTHER -> Unsupported

Rel(dirs, base, ext) == [abs |-> FALSE, dirs |-> dirs, base |-> base, ext |-> ext]

\* the path arguments the callers pass
PathArgs ==
    { Rel(<<>>, "cfg", ".json"), Rel(<<".">>, "cfg", ".json"), Rel(<<>>, "notes", ".txt") }

CanonPaths == { Resolve(a) : a \in PathArgs }

\* this._configPath = null
NoPath == Rel(<<>>, "", "")

(***************************************************************************)
(* File contents and decoding.                                             *)
(***************************************************************************)
Missing == "<no file>"
NoRaw == "<not read>"

CfgJson == Resolve(Rel(<<>>, "cfg", ".json"))
NotesTxt == Resolve(Rel(<<>>, "notes", ".txt"))

DataJson == Resolve(Rel(<<>>, "data", ".json"))
TableCsv == Resolve(Rel(<<>>, "table", ".csv"))

SettingsIni == Resolve(Rel(<<>>, "settings", ".ini"))

\* the contents a file can have
ContentsOf(p) ==
    CASE p = CfgJson -> { "{\"a\":1}", "{\"a\":2}", "{\"a\":" }
      [] p = DataJson -> { "null", "7", "[1]" }
      [] p = SettingsIni -> { "a=1\n" }
      [] p = TableCsv -> { "k,v\na,1\nb,2", "k,v,w\na,1,x" }
      [] OTHER -> { "text" }

A1 == Obj(<<"a">> :> Num(1))
A2 == Obj(<<"a">> :> Num(2))

(***************************************************************************)
(* Texts.  A text is a string; its characters are a sequence of strings of *)
(* one character each (a longer name of the model counts as one).          *)
(***************************************************************************)
\* the string of a sequence of characters
RECURSIVE Concat(_)
Concat(chars) == IF chars = <<>> THEN "" ELSE Head(chars) \o Concat(Tail(chars))

\* the property names of a node, in the order they are written.  The documents keep no
\* insertion order; the names are taken in one fixed order.
KeysOf(node) ==
    LET names == DOMAIN node.m IN
    CHOOSE s \in [1..Cardinality(names) -> names] :
        \A i, j \in 1..Cardinality(names) : i # j => s[i] # s[j]

Bool(b) == [t |-> "boolean", n |-> IF b THEN 1 ELSE 0, s |-> <<>>, m |-> <<>>, e |-> <<>>]

\* a writer of strings that escapes nothing
EscapeNothing(chars) == chars

\* the characters of a string between its quotes, as JSON.stringify writes them: a quote
\* and a backslash are escaped
RECURSIVE Escape(_)
Escape(chars) ==
    IF chars = <<>> THEN <<>>
    ELSE (IF Head(chars) \in {"\"", "\\"} THEN <<"\\", Head(chars)>> ELSE <<Head(chars)>>)
             \o Escape(Tail(chars))

\* the names of the properties JSON.stringify writes: those whose value is not undefined
Written(v, names) == SelectSeq(names, LAMBDA k : v.m[k] # Undefined)

\* JSON.stringify(v, null, 2): the characters of v written at the indentation ind;
\* Members and Elements write the properties from the i-th name on and the elements from
\* the i-th on (undefined in a sequence is written as null)
RECURSIVE JSONchars(_, _)
RECURSIVE Members(_, _, _, _)
RECURSIVE Elements(_, _, _)
JSONchars(v, ind) ==
    CASE v.t = "number" -> IF v.n < 0 THEN <<"-">> \o NumToStr(-v.n) ELSE NumToStr(v.n)
      [] v.t = "string" -> <<"\"">> \o Escape(v.s) \o <<"\"">>
      [] v.t = "boolean" -> IF v.n = 1 THEN <<"t", "r", "u", "e">> ELSE <<"f", "a", "l", "s", "e">>
      [] v.t = "object" ->
            IF Written(v, KeysOf(v)) = <<>> THEN <<"{", "}">>
            ELSE <<"{", "\n">> \o Members(v, Written(v, KeysOf(v)), 1, ind \o <<" ", " ">>)
                     \o <<"\n">> \o ind \o <<"}">>
      [] v.t = "array" ->
            IF v.e = <<>> THEN <<"[", "]">>
            ELSE <<"[", "\n">> \o Elements(v, 1, ind \o <<" ", " ">>) \o <<"\n">> \o ind \o <<"]">>
      [] OTHER -> <<"n", "u", "l", "l">>

Members(v, names, i, ind) ==
    ind \o <<"\"">> \o Escape(names[i]) \o <<"\"", ":", " ">> \o JSONchars(v.m[names[i]], ind)
        \o (IF i = Len(names) THEN <<>> ELSE <<",", "\n">> \o Members(v, names, i + 1, ind))

Elements(v, i, ind) ==
    ind \o JSONchars(v.e[i], ind)
        \o (IF i = Len(v.e) THEN <<>> ELSE <<",", "\n">> \o Elements(v, i + 1, ind))

JSONstringify(v, ind) == Concat(JSONchars(v, ind))

\* JSON.parse on characters.  A step of the parser gives ok (FALSE: SyntaxError), the
\* value read and the position after it.  Numbers are integers; of the escapes only
\* those of a quote, a backslash and a slash are read.
NoParse == [ok |-> FALSE, v |-> Undefined, next |-> 0]

\* the character at position i, "" past the end
At(cs, i) == IF i <= Len(cs) THEN cs[i] ELSE ""

Whitespace == {" ", "\n", "\t", "\r"}

RECURSIVE SkipWs(_, _)
SkipWs(cs, i) == IF At(cs, i) \in Whitespace THEN SkipWs(cs, i + 1) ELSE i

RECURSIVE DigitsEnd(_, _)
DigitsEnd(cs, i) == IF At(cs, i) \in Digits THEN DigitsEnd(cs, i + 1) ELSE i

RECURSIVE parseString(_, _, _)
parseString(cs, i, acc) ==
    IF i > Len(cs) \/ cs[i] = "\n" THEN NoParse
    ELSE IF cs[i] = "\"" THEN [ok |-> TRUE, v |-> Str(acc), next |-> i + 1]
    ELSE IF cs[i] = "\\"
         THEN IF At(cs, i + 1) \in {"\"", "\\", "/"}
              THEN parseString(cs, i + 2, Append(acc, cs[i + 1]))
              ELSE NoParse
    ELSE parseString(cs, i + 1, Append(acc, cs[i]))

parseNumber(cs, i) ==
    LET from == IF At(cs, i) = "-" THEN i + 1 ELSE i
        to == DigitsEnd(cs, from)
        digits == SubSeq(cs, from, to - 1)
    IN  IF digits = <<>> \/ (Len(digits) > 1 /\ digits[1] = "0") \/ At(cs, to) \in {".", "e", "E"}
        THEN NoParse
        ELSE [ok |-> TRUE, next |-> to,
              v |-> Num(IF from = i THEN DecimalValue(digits) ELSE 0 - DecimalValue(digits))]

parseLiteral(cs, i, word, v) ==
    IF SubSeq(cs, i, i + Len(word) - 1) = word /\ i + Len(word) - 1 <= Len(cs)
    THEN [ok |-> TRUE, v |-> v, next |-> i + Len(word)]
    ELSE NoParse

RECURSIVE parseValue(_, _)
RECURSIVE parseMembers(_, _, _)
RECURSIVE parseElements(_, _, _)
parseValue(cs, i) ==
    LET j == SkipWs(cs, i)
        c == At(cs, j)
    IN  CASE c = "{" ->
                IF At(cs, SkipWs(cs, j + 1)) = "}"
                THEN [ok |-> TRUE, v |-> EmptyObj, next |-> SkipWs(cs, j + 1) + 1]
                ELSE parseMembers(cs, SkipWs(cs, j + 1), EmptyObj)
          [] c = "[" ->
                IF At(cs, SkipWs(cs, j + 1)) = "]"
                THEN [ok |-> TRUE, v |-> EmptyArr, next |-> SkipWs(cs, j + 1) + 1]
                ELSE parseElements(cs, j + 1, <<>>)
          [] c = "\"" -> parseString(cs, j + 1, <<>>)
          [] c = "-" \/ c \in Digits -> parseNumber(cs, j)
          [] c = "n" -> parseLiteral(cs, j, <<"n", "u", "l", "l">>, Null)
          [] c = "t" -> parseLiteral(cs, j, <<"t", "r", "u", "e">>, Bool(TRUE))
          [] c = "f" -> parseLiteral(cs, j, <<"f", "a", "l", "s", "e">>, Bool(FALSE))
          [] OTHER -> NoParse

\* the members of an object from position i (the quote of a name) on, obj holding the
\* members read so far; a name read twice keeps its last value
parseMembers(cs, i, obj) ==
    IF At(cs, i) # "\"" THEN NoParse
    ELSE LET name == parseString(cs, i + 1, <<>>) IN
         IF ~name.ok \/ At(cs, SkipWs(cs, name.next)) # ":" THEN NoParse
         ELSE LET val == parseValue(cs, SkipWs(cs, name.next) + 1) IN
              IF ~val.ok THEN NoParse
              ELSE LET after == SkipWs(cs, val.next)
                       read == [obj EXCEPT !.m = (name.v.s :> val.v) @@ obj.m]
                   IN  IF At(cs, after) = "}" THEN [ok |-> TRUE, v |-> read, next |-> after + 1]
                       ELSE IF At(cs, after) = ","
                       THEN parseMembers(cs, SkipWs(cs, after + 1), read)
                       ELSE NoParse

\* the elements of an array from position i on, elems holding those read so far
parseElements(cs, i, elems) ==
    LET val == parseValue(cs, i) IN
    IF ~val.ok THEN NoParse
    ELSE LET after == SkipWs(cs, val.next) IN
         IF At(cs, after) = "]"
         THEN [ok |-> TRUE, v |-> Arr(Append(elems, val.v)), next |-> after + 1]
         ELSE IF At(cs, after) = "," THEN parseElements(cs, after + 1, Append(elems, val.v))
         ELSE NoParse

\* JSON.parse of the characters cs: one value with nothing but white space after it
JSONparseChars(cs) ==
    LET val == parseValue(cs, 1) IN
    IF val.ok /\ SkipWs(cs, val.next) > Len(cs) THEN [ok |-> TRUE, v |-> val.v]
    ELSE [ok |-> FALSE, v |-> Undefined]

\* the JSON-representable documents of the model: scalars, mappings of the names a and b
\* and sequences of up to MaxElems scalars, and a mapping or sequence holding one of those
MaxElems == 2

JsonScalars ==
    { Null, Bool(TRUE), Num(1), Num(0 - 12), Str(<<"1">>), Str(<<"\"", "\\">>) }

JsonFlat ==
    { Obj(f) : f \in UNION { [names -> JsonScalars] : names \in SUBSET {<<"a">>, <<"b">>} } }
        \cup { Arr(e) : e \in UNION { [1..k -> JsonScalars] : k \in 0..MaxElems } }

JsonDocs ==
    JsonScalars \cup JsonFlat
        \cup { Obj(<<"a">> :> c) : c \in JsonFlat } \cup { Arr(<<c>>) : c \in JsonFlat }

\* the characters of the contents the files of the model start with
ContentChars ==
    "{\"a\":1}" :> <<"{", "\"", "a", "\"", ":", "1", "}">>
        @@ "{\"a\":2}" :> <<"{", "\"", "a", "\"", ":", "2", "}">>
        @@ "{\"a\":" :> <<"{", "\"", "a", "\"", ":">>
        @@ "null" :> <<"n", "u", "l", "l">>
        @@ "7" :> <<"7">>
        @@ "[1]" :> <<"[", "1", "]">>
        @@ "k,v\na,1\nb,2" :> <<"k", ",", "v", "\n", "a", ",", "1", "\n", "b", ",", "2">>
        @@ "k,v,w\na,1,x" :> <<"k", ",", "v", ",", "w", "\n", "a", ",", "1", ",", "x">>
        @@ "key,value\nport,8080\nhost,localhost\n" :>
              <<"key", ",", "value", "\n", "port", ",", "8", "0", "8", "0", "\n",
                "host", ",", "localhost", "\n">>
        @@ "k,v\na,1\na,2\n" :> <<"k", ",", "v", "\n", "a", ",", "1", "\n", "a", ",", "2", "\n">>
        @@ "k,v\n" :> <<"k", ",", "v", "\n">>
        @@ "k\na\n" :> <<"k", "\n", "a", "\n">>
        @@ "k,1\na,b\n" :> <<"k", ",", "1", "\n", "a", ",", "b", "\n">>
        @@ "k,v\na\n" :> <<"k", ",", "v", "\n", "a", "\n">>

\* the texts saveConfig writes as JSON, each as the string of its characters
WrittenTexts == [cs \in { JSONchars(doc, <<>>) : doc \in JsonDocs } |-> Concat(cs)]

\* the characters of each of those texts
WrittenChars ==
    [raw \in { WrittenTexts[cs] : cs \in DOMAIN WrittenTexts } |->
        CHOOSE cs \in DOMAIN WrittenTexts : WrittenTexts[cs] = raw]

\* the characters of a text: of a starting content, of a text saveConfig wrote, or else
\* the text as one character that is no JSON
Chars(raw) ==
    IF raw \in DOMAIN ContentChars THEN ContentChars[raw]
    ELSE IF raw \in DOMAIN WrittenChars THEN WrittenChars[raw]
    ELSE <<raw>>

\* JSON.parse(raw): ok is FALSE when it throws SyntaxError
JSONparse(raw) == JSONparseChars(Chars(raw))

\* ini.parse on the contents the model's files hold: every value is a string
iniParse(raw) ==
    CASE raw = "" -> [ok |-> TRUE, v |-> EmptyObj]
      [] raw = "a=1\n" -> [ok |-> TRUE, v |-> Obj(<<"a">> :> Str(<<"1">>))]
      [] raw = "a=2\n" -> [ok |-> TRUE, v |-> Obj(<<"a">> :> Str(<<"2">>))]
      [] raw = "a=7\n" -> [ok |-> TRUE, v |-> Obj(<<"a">> :> Str(<<"7">>))]
      [] OTHER -> [ok |-> FALSE, v |-> Undefined]

\* the rows of a CSV text from position i on, each the fields of a line: field and row
\* hold what is read of the current field and line, quoted says that a quote is open.
\* ok is FALSE when the text ends inside quotes.
RECURSIVE csvRows(_, _, _, _, _)
csvRows(cs, i, field, row, quoted) ==
    IF i > Len(cs)
    THEN [ok |-> ~quoted,
          rows |-> IF field = <<>> /\ row = <<>> THEN <<>> ELSE <<Append(row, field)>>]
    ELSE IF quoted
         THEN IF cs[i] = "\"" /\ At(cs, i + 1) = "\""
              THEN csvRows(cs, i + 2, Append(field, "\""), row, TRUE)
              ELSE IF cs[i] = "\"" THEN csvRows(cs, i + 1, field, row, FALSE)
              ELSE csvRows(cs, i + 1, Append(field, cs[i]), row, TRUE)
    ELSE IF cs[i] = "\"" /\ field = <<>> THEN csvRows(cs, i + 1, field, row, TRUE)
    ELSE IF cs[i] = "," THEN csvRows(cs, i + 1, <<>>, Append(row, field), FALSE)
    ELSE IF cs[i] = "\n"
         THEN LET rest == csvRows(cs, i + 1, <<>>, <<>>, FALSE) IN
              [ok |-> rest.ok, rows |-> <<Append(row, field)>> \o rest.rows]
    ELSE csvRows(cs, i + 1, Append(field, cs[i]), row, FALSE)

\* csvParse.parse(raw, { columns: true }): the first row names the columns; each further
\* row is a record, the assignments record[name] = field in column order; ok is FALSE
\* when it throws (open quotes, a row of another length than the header)
csvRecords(read) ==
    LET header == Head(read.rows)
        data == Tail(read.rows)
    IN  IF ~read.ok THEN [ok |-> FALSE, v |-> <<>>]
        ELSE IF read.rows = <<>> THEN [ok |-> TRUE, v |-> <<>>]
        ELSE IF \E i \in 1..Len(data) : Len(data[i]) # Len(header)
        THEN [ok |-> FALSE, v |-> <<>>]
        ELSE [ok |-> TRUE,
              v |-> [i \in 1..Len(data) |->
                        [j \in 1..Len(header) |-> [col |-> header[j], val |-> Str(data[i][j])]]]]

csvParse(raw) == csvRecords(csvRows(Chars(raw), 1, <<>>, <<>>, FALSE))

\* the names assigned in a record, each once, in the order of their first assignment
RECURSIVE Distinct(_)
Distinct(names) ==
    IF names = <<>> THEN <<>>
    ELSE LET front == Distinct(SubSeq(names, 1, Len(names) - 1))
             last == names[Len(names)]
         IN  IF \E i \in 1..Len(front) : front[i] = last THEN front ELSE Append(front, last)

\* Object.keys(record): the names that are array indices first, in ascending order, then
\* the other names in the order of their first assignment
OwnKeyOrder(names) ==
    LET indices == { names[i] : i \in { j \in 1..Len(names) : IsIndexKey(names[j]) } }
        ascending == CHOOSE s \in [1..Cardinality(indices) -> indices] :
                        \A i, j \in 1..Cardinality(indices) :
                            i < j => DecimalValue(s[i]) < DecimalValue(s[j])
    IN  ascending \o SelectSeq(names, LAMBDA name : ~IsIndexKey(name))

ObjectKeys(record) == OwnKeyOrder(Distinct([i \in 1..Len(record) |-> record[i].col]))

\* record[col]: the field assigned last to the name
Field(record, col) ==
    LET i == CHOOSE i \in 1..Len(record) :
                 /\ record[i].col = col
                 /\ \A j \in (i + 1)..Len(record) : record[j].col # col
    IN  record[i].val

\* the record as a document node
RecordObj(record) ==
    Obj([col \in { record[i].col : i \in 1..Len(record) } |-> Field(record, col)])

\* a forEach that stops after the record it starts with
FillOne(cfg, records, keys, i) ==
    IF i > Len(records) THEN cfg
    ELSE PutProp(cfg, Field(records[i], keys[1]), Field(records[i], keys[2]))

\* records.forEach(row => this._config[row[keys[0]]] = row[keys[1]]), from record i on
RECURSIVE FillRows(_, _, _, _)
FillRows(cfg, records, keys, i) ==
    IF i > Len(records) THEN cfg
    ELSE FillRows(PutProp(cfg, Field(records[i], keys[1]), Field(records[i], keys[2])),
                  records, keys, i + 1)

\* the document the records give: a mapping from the first key to the second when the
\* first record has two keys, else { records }
fromRecords(parsed) ==
    LET records == parsed.v
    IN  IF ~parsed.ok THEN [ok |-> FALSE, v |-> Undefined]
        ELSE IF Len(records) # 0 /\ Len(ObjectKeys(records[1])) = 2
        THEN [ok |-> TRUE, v |-> FillRows(EmptyObj, records, ObjectKeys(records[1]), 1)]
        ELSE [ok |-> TRUE,
              v |-> Obj(<<"records">> :> Arr([i \in 1..Len(records) |-> RecordObj(records[i])]))]

\* case 'csv' of loadConfig
decodeCsv(raw) == fromRecords(csvParse(raw))

\* the switch of loadConfig, for the formats of the files above
decode(format, raw) ==
    CASE format = "json" -> JSONparse(raw)
      [] format = "ini" -> iniParse(raw)
      [] format = "csv" -> decodeCsv(raw)
      [] OTHER -> [ok |-> FALSE, v |-> Undefined]

(***************************************************************************)
(* Encoding: the texts saveConfig writes.                                  *)
(***************************************************************************)
\* the text of a scalar in an ini file
Plain(v) ==
    CASE v.t = "number" -> Concat(NumToStr(v.n))
      [] v.t = "string" -> Concat(v.s)
      [] v.t = "boolean" -> IF v.n = 1 THEN "true" ELSE "false"
      [] OTHER -> ""

\* ini.stringify of a mapping of scalars, from the i-th name on: one line per property
RECURSIVE iniLines(_, _, _)
iniLines(doc, names, i) ==
    IF i > Len(names) THEN ""
    ELSE Concat(names[i]) \o "=" \o Plain(doc.m[names[i]]) \o "\n" \o iniLines(doc, names, i + 1)

\* JSON.stringify(v): the characters of v written without white space
RECURSIVE JSONcompact(_)
RECURSIVE CompactMembers(_, _, _)
RECURSIVE CompactElements(_, _)
JSONcompact(v) ==
    CASE v.t = "object" -> <<"{">> \o CompactMembers(v, Written(v, KeysOf(v)), 1) \o <<"}">>
      [] v.t = "array" ->
            IF v.e = <<>> THEN <<"[", "]">> ELSE <<"[">> \o CompactElements(v, 1) \o <<"]">>
      [] OTHER -> JSONchars(v, <<>>)

CompactMembers(v, names, i) ==
    IF i > Len(names) THEN <<>>
    ELSE <<"\"">> \o Escape(names[i]) \o <<"\"", ":">> \o JSONcompact(v.m[names[i]])
             \o (IF i = Len(names) THEN <<>> ELSE <<",">> \o CompactMembers(v, names, i + 1))

CompactElements(v, i) ==
    JSONcompact(v.e[i])
        \o (IF i = Len(v.e) THEN <<>> ELSE <<",">> \o CompactElements(v, i + 1))

\* the characters csv-stringify writes for a value: a string as it is, a number in
\* decimal, true as 1, false, null and undefined as nothing, anything else as JSON
csvCast(v) ==
    CASE v.t = "string" -> v.s
      [] v.t = "number" -> JSONchars(v, <<>>)
      [] v.t = "boolean" -> IF v.n = 1 THEN <<"1">> ELSE <<>>
      [] v.t \in {"null", "undefined"} -> <<>>
      [] OTHER -> JSONcompact(v)

RECURSIVE DoubleQuotes(_)
DoubleQuotes(chars) ==
    IF chars = <<>> THEN <<>>
    ELSE (IF Head(chars) = "\"" THEN <<"\"", "\"">> ELSE <<Head(chars)>>) \o DoubleQuotes(Tail(chars))

\* a field as it is written: in quotes, with its quotes doubled, when it holds a comma, a
\* quote or a line break
csvQuote(chars) ==
    IF \E i \in 1..Len(chars) : chars[i] \in {",", "\"", "\n", "\r"}
    THEN <<"\"">> \o DoubleQuotes(chars) \o <<"\"">>
    ELSE chars

\* a line of fields, from the i-th on
RECURSIVE csvLine(_, _)
csvLine(fields, i) ==
    IF i > Len(fields) THEN <<"\n">>
    ELSE csvQuote(fields[i]) \o (IF i = Len(fields) THEN <<>> ELSE <<",">>) \o csvLine(fields, i + 1)

\* the fields of a record under the columns: nothing for a column the record lacks
csvFields(record, columns) ==
    [j \in 1..Len(columns) |->
        IF \E i \in 1..Len(record) : record[i].col = columns[j]
        THEN csvCast(Field(record, columns[j])) ELSE <<>>]

RECURSIVE csvLines(_, _, _)
csvLines(records, columns, i) ==
    IF i > Len(records) THEN <<>>
    ELSE csvLine(csvFields(records[i], columns), 1) \o csvLines(records, columns, i + 1)

\* csvStringify.stringify(records, { header: true }) for records that are objects: the
\* columns are the keys of the first record; no record, no text
csvStringify(records) ==
    IF records = <<>> THEN <<>>
    ELSE LET columns == ObjectKeys(records[1]) IN
         csvLine(columns, 1) \o csvLines(records, columns, 1)

\* Object.entries(doc) as the assignments of a record, for a document that is neither
\* null nor undefined: the elements of a sequence (a hole counts as an element) or the
\* characters of a string under their indices, then the named properties; nothing for a
\* number or a boolean
EntriesOf(doc, names) ==
    [i \in 1..Len(doc.e) |-> [col |-> NumToStr(i - 1), val |-> doc.e[i]]]
        \o [i \in 1..Len(doc.s) |-> [col |-> NumToStr(i - 1), val |-> Str(<<doc.s[i]>>)]]
        \o [i \in 1..Len(names) |-> [col |-> names[i], val |-> doc.m[names[i]]]]

ObjectEntries(doc) ==
    EntriesOf(doc, IF doc.t \in {"object", "array"} THEN KeysOf(doc) ELSE <<>>)

\* the every-test of the csv case: typeof v !== 'object' || Array.isArray(v)
notPlainObject(v) == ~TypeofObject(v) \/ IsArray(v)

\* case 'csv' of saveConfig; ok is FALSE when it throws (TypeError for Object.values of
\* null, 'Unsupported structure for csv export').  Records that are no objects are
\* beyond csvStringify as it is modelled and are put with the failures.
csvExport(doc, entries, records) ==
    IF doc.t \in {"null", "undefined"} THEN [ok |-> FALSE, text |-> ""]
    ELSE IF \A i \in 1..Len(entries) : notPlainObject(entries[i].val)
    THEN [ok |-> TRUE,
          text |-> Concat(csvStringify(
              [i \in 1..Len(entries) |->
                  << [col |-> <<"key">>, val |-> Str(entries[i].col)],
                     [col |-> <<"value">>, val |-> entries[i].val] >>]))]
    ELSE IF IsArray(records) /\ \A i \in 1..Len(records.e) : records.e[i].t = "object"
    THEN [ok |-> TRUE,
          text |-> Concat(csvStringify(
              [i \in 1..Len(records.e) |-> ObjectEntries(records.e[i])]))]
    ELSE [ok |-> FALSE, text |-> ""]

encodeCsv(doc) == csvExport(doc, ObjectEntries(doc), GetProp(doc, Str(<<"records">>)))

\* the switch of saveConfig, for the formats of the targets of the model (json, csv, and
\* ini for a mapping of scalars): the text
encode(format, doc) ==
    CASE format = "json" -> [ok |-> TRUE, text |-> JSONstringify(doc, <<>>)]
      [] format = "csv" -> encodeCsv(doc)
      [] format = "ini" /\ doc.t = "object" ->
            [ok |-> TRUE, text |-> iniLines(doc, KeysOf(doc), 1)]
      [] OTHER -> [ok |-> FALSE, text |-> ""]

(***************************************************************************)
(* WriteQueue of the data service (src/unnamed/part_000).  A queue value   *)
(* holds the fields of the WriteQueue instance, queue and processing, and  *)
(* what surrounds them: the task process() is awaiting, the progress of    *)
(* every task, the promise add returned for it, the order in which tasks   *)
(* were started, and the items of DATA_FILE.  Tasks are numbered in the    *)
(* order of the saveData calls.                                            *)
(***************************************************************************)
MaxTasks == 3

Tasks == 1..MaxTasks

\* new WriteQueue(), before any saveData
NewWriteQueue ==
    [queue |-> <<>>, processing |-> FALSE, current |-> 0,
     task |-> [id \in Tasks |-> "none"], isArray |-> [id \in Tasks |-> FALSE],
     promise |-> [id \in Tasks |-> "none"],
     started |-> <<>>, fileExists |-> FALSE, file |-> <<>>, items |-> <<>>]

\* the head of `while (this.queue.length)`: shift the next entry and call its task,
\* which runs up to its first await (readFile), or leave the loop and clear the flag
processLoop(q) ==
    IF q.queue # <<>>
    THEN [q EXCEPT !.queue = Tail(@), !.current = Head(q.queue),
                   !.task[Head(q.queue)] = "reading",
                   !.started = Append(@, Head(q.queue))]
    ELSE [q EXCEPT !.processing = FALSE, !.current = 0]

\* process(), up to its first await
process(q) == IF q.processing THEN q ELSE processLoop([q EXCEPT !.processing = TRUE])

\* add(task): the executor pushes the entry and calls process()
add(q, id, isArray) ==
    process([q EXCEPT !.queue = Append(@, id), !.promise[id] = "pending",
                      !.task[id] = "queued", !.isArray[id] = isArray])

\* a process() without try/catch: the rejection of a task leaves the loop, the flag set
processResumeUncaught(q) ==
    IF q.task[q.current] = "ok"
    THEN processLoop([q EXCEPT !.promise[q.current] = "fulfilled"])
    ELSE [q EXCEPT !.current = 0]

\* process() after `await task()`: resolve or reject the promise of the entry with the
\* outcome of its task, then the head of the loop again
processResume(q) ==
    processLoop([q EXCEPT !.promise[q.current] =
                              IF q.task[q.current] = "ok" THEN "fulfilled" ELSE "rejected"])

\* the task of saveData after `await readFile`: an error other than ENOENT (JSON.parse
\* of a corrupt file included) is thrown; else items is what was read, [] for no file,
\* replaced by data when data is an array and extended by it otherwise
taskRead(q, failed) ==
    IF failed THEN [q EXCEPT !.task[q.current] = "failed"]
    ELSE [q EXCEPT !.task[q.current] = "writing",
                   !.items = IF q.isArray[q.current] THEN <<q.current>>
                             ELSE (IF q.fileExists THEN q.file ELSE <<>>) \o <<q.current>>]

\* the task of saveData after `await atomicWrite`
taskWrite(q, failed) ==
    IF failed THEN [q EXCEPT !.task[q.current] = "failed"]
    ELSE [q EXCEPT !.task[q.current] = "ok", !.fileExists = TRUE, !.file = q.items]

(***************************************************************************)
(* The logger (src/logger.js).  A logger value holds the module's          *)
(* variables logStream (0 for null, else the number of the stream),        *)
(* logFilePath, writeQueue and writing, and what surrounds them: the       *)
(* streams opened so far, the writes handed to a stream whose callback has *)
(* not run, and the promise enqueueWriteLogEntry made for every entry.     *)
(* Entries are numbered in the order of the log calls.                     *)
(***************************************************************************)
MaxLogs == 3
MaxStreams == 2

Entries == 1..MaxLogs

NoLogger ==
    [logStream |-> 0, logFilePath |-> "", writeQueue |-> <<>>, writing |-> FALSE,
     opened |-> 0, outstanding |-> {}, promise |-> [id \in Entries |-> "none"]]

RECURSIVE processWriteQueue(_)
processWriteQueue(l) ==
    IF l.writing \/ l.writeQueue = <<>> THEN l
    ELSE LET id == Head(l.writeQueue)
             shifted == [l EXCEPT !.writing = TRUE, !.writeQueue = Tail(@)]
         IN  IF l.logStream = 0
             THEN processWriteQueue([shifted EXCEPT !.writing = FALSE,
                                                    !.promise[id] = "rejected"])
             ELSE [shifted EXCEPT !.outstanding =
                                      @ \cup {[stream |-> l.logStream, entry |-> id]}]

enqueueWriteLogEntry(l, id) ==
    IF l.logStream = 0 THEN [l EXCEPT !.promise[id] = "rejected"]
    ELSE processWriteQueue([l EXCEPT !.writeQueue = Append(@, id),
                                     !.promise[id] = "pending"])

\* the callback of logStream.write for the write w
writeCallback(l, w, err) ==
    processWriteQueue([l EXCEPT !.outstanding = @ \ {w}, !.writing = FALSE,
                                !.promise[w.entry] = IF err THEN "rejected" ELSE "fulfilled"])

closeLogger(l) ==
    IF l.logStream # 0
    THEN [l EXCEPT !.logStream = 0, !.logFilePath = "", !.writeQueue = <<>>,
                   !.writing = FALSE]
    ELSE l

initLogger(l) ==
    [closeLogger(l) EXCEPT !.logStream = l.opened + 1, !.logFilePath = "app.log",
                           !.opened = @ + 1]

\* the promise logInfo, logError and logAction return: enqueueWriteLogEntry(...).catch
\* of a handler that returns normally, fulfilled once the inner promise has settled
returned(inner) == IF inner \in {"fulfilled", "rejected"} THEN "fulfilled" ELSE inner

(***************************************************************************)
(* The state of the ConfigService and of its environment.                  *)
(***************************************************************************)
VARIABLES
    config,          \* this._config
    configPath,      \* this._configPath
    watchedFiles,    \* the keys of this._watchedFiles (each holds an open fs watcher)
    watchDebounces,  \* the keys of this._watchDebounces
    callback,        \* per path, the callback captured by the handler closure
    timers,          \* per path, the number of armed debounce timeouts of the closure
    debounceAge,     \* per path, the ticks each armed timeout has waited, oldest first
    loads,           \* the loadConfig calls suspended at `await readFile`, oldest first
    files,           \* the file system: per canonical path, the content or Missing
    burst,           \* per path, notifications received since the timer was last idle
    owed,            \* per path, debounce windows opened minus reloads started or cancelled
    watchers,        \* per path, the fs watchers opened by fs.watch and not yet closed
    writes,          \* the saveConfig calls suspended at `await writeFile`, oldest first
    event,           \* the last step: the API call or watch-triggered reload, and what it did
    saveQueue,       \* writeQueue of the data service: the WriteQueue instance and its tasks
    logger           \* the module variables of logger.js and the writes of its streams

vars == <<config, configPath, watchedFiles, watchDebounces, callback, timers, debounceAge,
          loads, files, burst, owed, watchers, writes, event, saveQueue, logger>>

serviceVars == <<config, configPath, watchedFiles, watchDebounces, callback, timers,
                 debounceAge, loads, files, burst, owed, watchers, writes, event>>

storeVars == <<config, configPath>>
watchVars ==
    <<watchedFiles, watchDebounces, callback, timers, debounceAge, burst, owed, watchers>>

MaxLoads == 2
MaxBurst == 2
Subscribers == 2

Callbacks == {"cb1"}
NoCallback == "<none>"

(***************************************************************************)
(* An event: what the last step did, when it was a call of the API or the  *)
(* timer callback of watchConfig running to its end (op "reload"); NoEvent *)
(* after any other step.                                                   *)
(*   path, err       the canonical path and the error raised ("" for none) *)
(*   io, existed     loadConfig: the file-system calls made before the     *)
(*                   await, and whether the file existed at the call       *)
(*   key, value, before   setConfig: its arguments and the document       *)
(*                   before the call                                       *)
(*   result, afterSet   getConfig(key): what it returned, and whether the  *)
(*                   step before was setConfig(key, value), whose value    *)
(*                   and before it then keeps                              *)
(*   cb, cbCalls     reload: the callback of the entry and how often it    *)
(*                   was invoked                                           *)
(*   changed, delivered   reload: emits of 'configChanged' and the number  *)
(*                   of subscribers it reached                             *)
(*   reloadError     reload: emits of 'configReloadError'                  *)
(*   subscriberRaised, escaped   reload: a 'configReloadError' subscriber  *)
(*                   raised; an error left the timer callback              *)
(*   pending         unwatchConfig: a debounce timeout of the entry was    *)
(*                   armed at the call                                     *)
(*   watched         watchConfig, unwatchConfig: the path had an entry at  *)
(*                   the call (cb is then the callback passed)             *)
(*   absent          getConfig, setConfig: the call passed no key          *)
(*   out             saveConfig: the text handed to writeFile              *)
(***************************************************************************)
NoEvent ==
    [op |-> "", path |-> NoPath, err |-> "", io |-> <<>>, existed |-> FALSE,
     key |-> <<>>, value |-> Undefined, before |-> Undefined, result |-> Undefined,
     afterSet |-> FALSE,
     cb |-> NoCallback, cbCalls |-> 0, changed |-> 0, delivered |-> 0, reloadError |-> 0,
     subscriberRaised |-> FALSE, escaped |-> FALSE, pending |-> FALSE,
     watched |-> FALSE, absent |-> FALSE, out |-> ""]

NewEvent(op) == [NoEvent EXCEPT !.op = op]

\* the state after construction, but for the document and the files
InitService ==
    /\ configPath = NoPath
    /\ watchedFiles = {}
    /\ watchDebounces = {}
    /\ callback = [p \in CanonPaths |-> NoCallback]
    /\ timers = [p \in CanonPaths |-> 0]
    /\ debounceAge = [p \in CanonPaths |-> <<>>]
    /\ loads = <<>>
    /\ burst = [p \in CanonPaths |-> 0]
    /\ owed = [p \in CanonPaths |-> 0]
    /\ watchers = [p \in CanonPaths |-> 0]
    /\ writes = <<>>
    /\ event = NoEvent
    /\ saveQueue = NewWriteQueue
    /\ logger = NoLogger

Init ==
    /\ config = EmptyObj
    /\ files \in [CanonPaths -> {Missing, "text", "{\"a\":1}"}]
    /\ \A p \in CanonPaths : files[p] \in ContentsOf(p) \cup {Missing}
    /\ InitService

(***************************************************************************)
(* loadConfig.  The call runs up to `await fs.promises.readFile` in one    *)
(* step, the read happens while it is suspended, and the rest runs when    *)
(* the read has settled.                                                   *)
(***************************************************************************)
\* loadConfig up to the await without the fs.existsSync test: a missing file is found
\* missing only by the read
loadConfigSyncUnchecked(absPath, fsys) ==
    IF detectFormat(absPath) = Unsupported
    THEN [err |-> "UnsupportedFormat", io |-> <<>>]
    ELSE [err |-> "", io |-> <<"readFile">>]

\* loadConfig up to the await: the error thrown ("" when none) and the file-system
\* calls made, in order
loadConfigSync(absPath, fsys) ==
    IF fsys[absPath] = Missing
    THEN [err |-> "FileNotFound", io |-> <<"existsSync">>]
    ELSE IF detectFormat(absPath) = Unsupported
    THEN [err |-> "UnsupportedFormat", io |-> <<"existsSync">>]
    ELSE [err |-> "", io |-> <<"existsSync", "readFile">>]

\* loadConfig after the await with the two assignments ahead of the read and the decode:
\* a failed load then leaves an empty document and the new path
loadConfigFinishEager(absPath, raw, doc, docPath) ==
    IF raw = Missing
    THEN [err |-> "ReadError", config |-> EmptyObj, configPath |-> absPath]
    ELSE LET d == decode(detectFormat(absPath), raw) IN
         IF d.ok THEN [err |-> "", config |-> d.v, configPath |-> absPath]
         ELSE [err |-> "ParseError", config |-> EmptyObj, configPath |-> absPath]

\* loadConfig after the await with the path remembered ahead of the decode
loadConfigFinishPathFirst(absPath, raw, doc, docPath) ==
    IF raw = Missing
    THEN [err |-> "ReadError", config |-> doc, configPath |-> docPath]
    ELSE LET d == decode(detectFormat(absPath), raw) IN
         IF d.ok THEN [err |-> "", config |-> d.v, configPath |-> absPath]
         ELSE [err |-> "ParseError", config |-> doc, configPath |-> absPath]

\* loadConfig after the await with the document assigned whatever the decoder did
loadConfigFinishUnchecked(absPath, raw, doc, docPath) ==
    IF raw = Missing
    THEN [err |-> "ReadError", config |-> doc, configPath |-> docPath]
    ELSE LET d == decode(detectFormat(absPath), raw) IN
         IF d.ok THEN [err |-> "", config |-> d.v, configPath |-> absPath]
         ELSE [err |-> "ParseError", config |-> d.v, configPath |-> docPath]

\* loadConfig after the await without the assignment of the document: the document of
\* before the load stays
loadConfigFinishKeepDoc(absPath, raw, doc, docPath) ==
    IF raw = Missing
    THEN [err |-> "ReadError", config |-> doc, configPath |-> docPath]
    ELSE LET d == decode(detectFormat(absPath), raw) IN
         IF d.ok THEN [err |-> "", config |-> doc, configPath |-> absPath]
         ELSE [err |-> "ParseError", config |-> doc, configPath |-> docPath]

\* loadConfig after the await assigning the decoded properties onto the document in
\* place: the properties the file does not name stay
loadConfigFinishMerging(absPath, raw, doc, docPath) ==
    IF raw = Missing
    THEN [err |-> "ReadError", config |-> doc, configPath |-> docPath]
    ELSE LET d == decode(detectFormat(absPath), raw) IN
         IF d.ok
         THEN [err |-> "",
               config |-> IF d.v.t = "object" /\ doc.t = "object" THEN Obj(d.v.m @@ doc.m) ELSE d.v,
               configPath |-> absPath]
         ELSE [err |-> "ParseError", config |-> doc, configPath |-> docPath]

\* a loadConfig that remembers only the first path loaded
loadConfigFinishFirstPath(absPath, raw, doc, docPath) ==
    IF raw = Missing
    THEN [err |-> "ReadError", config |-> doc, configPath |-> docPath]
    ELSE LET d == decode(detectFormat(absPath), raw) IN
         IF d.ok
         THEN [err |-> "", config |-> d.v,
               configPath |-> IF docPath = NoPath THEN absPath ELSE docPath]
         ELSE [err |-> "ParseError", config |-> doc, configPath |-> docPath]

\* loadConfig after the await: the error thrown ("" when none), and the document and
\* remembered path it leaves
loadConfigFinish(absPath, raw, doc, docPath) ==
    IF raw = Missing
    THEN [err |-> "ReadError", config |-> doc, configPath |-> docPath]
    ELSE LET d == decode(detectFormat(absPath), raw) IN
         IF d.ok THEN [err |-> "", config |-> d.v, configPath |-> absPath]
         ELSE [err |-> "ParseError", config |-> doc, configPath |-> docPath]

\* a direct loadConfig(arg)
LoadConfig(arg) ==
    LET absPath == Resolve(arg)
        sync == loadConfigSync(absPath, files)
    IN  /\ event' = [NewEvent("loadConfig") EXCEPT !.path = absPath, !.err = sync.err,
                         !.io = sync.io, !.existed = (files[absPath] # Missing)]
        /\ IF sync.err # "" THEN UNCHANGED loads
           ELSE /\ Len(loads) < MaxLoads
                /\ loads' = Append(loads, [path |-> absPath, origin |-> "direct",
                                           cb |-> NoCallback, raw |-> NoRaw])
        /\ UNCHANGED <<storeVars, watchVars, files, writes>>
        /\ UNCHANGED <<saveQueue, logger>>

\* the read of a suspended loadConfig takes place
ReadFile(i) ==
    /\ i \in 1..Len(loads)
    /\ loads[i].raw = NoRaw
    /\ loads' = [loads EXCEPT ![i].raw = files[loads[i].path]]
    /\ event' = NoEvent
    /\ UNCHANGED <<storeVars, watchVars, files, writes>>
    /\ UNCHANGED <<saveQueue, logger>>

(***************************************************************************)
(* saveConfig.  The call runs up to `await fs.promises.writeFile` in one   *)
(* step, with the text encoded from the document as it is at the call; the *)
(* write happens while the call is suspended.  A call without an argument  *)
(* passes NoPath.                                                          *)
(***************************************************************************)
\* a saveConfig that falls back to cfg.json when no path is remembered
saveTargetOrDefault(savePath, remembered) ==
    IF savePath # NoPath THEN Resolve(savePath)
    ELSE IF remembered = NoPath THEN CfgJson ELSE remembered

\* saveConfig: filePath = savePath ? path.resolve(savePath) : this._configPath
saveTarget(savePath, remembered) ==
    IF savePath # NoPath THEN Resolve(savePath) ELSE remembered

\* a saveConfig that keeps to the format of the file last loaded
saveFormatOfLoaded(filePath, remembered) ==
    IF remembered = NoPath THEN detectFormat(filePath) ELSE detectFormat(remembered)

\* saveConfig: format = this._detectFormat(filePath)
saveFormat(filePath, remembered) == detectFormat(filePath)

\* saveConfig up to the await: the error thrown ("" when none), the target and the text
saveConfigSync(savePath, doc, remembered) ==
    LET filePath == saveTarget(savePath, remembered)
        format == saveFormat(filePath, remembered)
        enc == encode(format, doc)
    IN  IF filePath = NoPath THEN [err |-> "SaveError", path |-> NoPath, out |-> ""]
        ELSE IF format = Unsupported
        THEN [err |-> "UnsupportedFormat", path |-> filePath, out |-> ""]
        ELSE IF ~enc.ok THEN [err |-> "EncodeError", path |-> filePath, out |-> ""]
        ELSE [err |-> "", path |-> filePath, out |-> enc.text]

\* a saveConfig that remembers its target as loadConfig does
pathAfterSaveTo(filePath, remembered) == IF filePath = NoPath THEN remembered ELSE filePath

\* this._configPath after saveConfig: the method assigns to no field of the service
pathAfterSave(filePath, remembered) == remembered

\* a saveConfig(savePath) call
SaveConfig(savePath) ==
    LET sync == saveConfigSync(savePath, config, configPath) IN
    /\ event' = [NewEvent("saveConfig") EXCEPT !.path = sync.path, !.err = sync.err,
                                               !.out = sync.out, !.absent = (savePath = NoPath)]
    /\ IF sync.err # "" THEN UNCHANGED writes
       ELSE writes' = Append(writes, [path |-> sync.path, out |-> sync.out])
    /\ configPath' = pathAfterSave(sync.path, configPath)
    /\ UNCHANGED <<config, watchVars, loads, files>>
    /\ UNCHANGED <<saveQueue, logger>>

\* a saveConfig that encodes the document when the write takes place
writtenLate(w, doc) ==
    IF encode(detectFormat(w.path), doc).ok THEN encode(detectFormat(w.path), doc).text ELSE w.out

\* fs.promises.writeFile(filePath, out, 'utf8'): the text written is the string `out`
\* made before the await, whatever the document is by then
written(w, doc) == w.out

\* the write of a suspended saveConfig takes place and the call returns
WriteFile(i) ==
    /\ i \in 1..Len(writes)
    /\ files' = [files EXCEPT ![writes[i].path] = written(writes[i], config)]
    /\ writes' = SubSeq(writes, 1, i - 1) \o SubSeq(writes, i + 1, Len(writes))
    /\ event' = [NewEvent("saveConfig settled") EXCEPT !.path = writes[i].path,
                                                       !.out = writes[i].out]
    /\ UNCHANGED <<storeVars, watchVars, loads>>
    /\ UNCHANGED <<saveQueue, logger>>

(***************************************************************************)
(* The timer callback of watchConfig: what runs around the awaited         *)
(* loadConfig.  err is the error loadConfig threw ("" for none); then the  *)
(* callback raises or returns, the k-th 'configChanged' subscriber raises  *)
(* (0: none does), and some 'configReloadError' subscriber raises or none  *)
(* does.                                                                   *)
(***************************************************************************)
reloadHandler(err, cbRaises, changedRaisesAt, errorRaises) ==
    IF err # ""
    THEN [cbCalls |-> 0, changed |-> 0, delivered |-> 0, reloadError |-> 1,
          subscriberRaised |-> errorRaises, escaped |-> errorRaises]
    ELSE IF cbRaises
    THEN [cbCalls |-> 1, changed |-> 0, delivered |-> 0, reloadError |-> 1,
          subscriberRaised |-> errorRaises, escaped |-> errorRaises]
    ELSE IF changedRaisesAt # 0
    THEN [cbCalls |-> 1, changed |-> 1, delivered |-> changedRaisesAt, reloadError |-> 1,
          subscriberRaised |-> errorRaises, escaped |-> errorRaises]
    ELSE [cbCalls |-> 1, changed |-> 1, delivered |-> Subscribers, reloadError |-> 0,
          subscriberRaised |-> FALSE, escaped |-> FALSE]

\* what the timer callback can do after loadConfig threw err, over all behaviours of the
\* callback and of the subscribers
HandlerOutcomes(err) ==
    { reloadHandler(err, cbRaises, at, errorRaises) :
        cbRaises \in BOOLEAN, at \in 0..Subscribers, errorRaises \in BOOLEAN }

ReloadEvent(ld, err, h) ==
    [NewEvent("reload") EXCEPT !.path = ld.path, !.cb = ld.cb, !.err = err,
        !.cbCalls = h.cbCalls, !.changed = h.changed, !.delivered = h.delivered,
        !.reloadError = h.reloadError, !.subscriberRaised = h.subscriberRaised,
        !.escaped = h.escaped]

\* loadConfig by itself calls no callback and emits nothing
NoNotification ==
    [cbCalls |-> 0, changed |-> 0, delivered |-> 0, reloadError |-> 0,
     subscriberRaised |-> FALSE, escaped |-> FALSE]

\* a loadConfig that ends in the notifications of the timer callback whoever called it
OutcomesAlways(origin, err) == HandlerOutcomes(err)

\* what follows the end of a loadConfig that threw err: the rest of the timer callback
\* when the timer callback awaited it, nothing when the caller was someone else
Outcomes(origin, err) == IF origin = "watch" THEN HandlerOutcomes(err) ELSE {NoNotification}

Remove(seq, i) == SubSeq(seq, 1, i - 1) \o SubSeq(seq, i + 1, Len(seq))

\* a timer callback whose catch starts the failed loadConfig again
settleRetrying(inflight, i, err) ==
    IF err # "" /\ inflight[i].origin = "watch"
    THEN [inflight EXCEPT ![i].raw = NoRaw]
    ELSE Remove(inflight, i)

\* the calls of loadConfig still suspended once call i has ended with err: that call is
\* over whatever err is, the catch of the timer callback emits and starts nothing
settle(inflight, i, err) == Remove(inflight, i)

\* a suspended loadConfig resumes after its read; a watch-triggered one then runs the
\* rest of the timer callback.  With observe, the event tells whether the step before a
\* successful completion was a setConfig that returned.
Complete(i, observe) ==
    /\ i \in 1..Len(loads)
    /\ loads[i].raw # NoRaw
    /\ LET ld == loads[i]
           fin == loadConfigFinish(ld.path, ld.raw, config, configPath)
       IN  /\ config' = fin.config
           /\ configPath' = fin.configPath
           /\ loads' = settle(loads, i, fin.err)
           /\ \E h \in Outcomes(ld.origin, fin.err) :
                  event' = [ReloadEvent(ld, fin.err, h) EXCEPT
                               !.op = IF ld.origin = "direct" THEN "loadConfig settled" ELSE @,
                               !.afterSet = /\ observe /\ fin.err = ""
                                           /\ event.op = "setConfig" /\ event.err = ""]
    /\ UNCHANGED <<watchVars, files, writes>>
    /\ UNCHANGED <<saveQueue, logger>>

LoadResume(i) == Complete(i, FALSE)

(***************************************************************************)
(* watchConfig, the fs.watch handler, the debounce timer, unwatchConfig.   *)
(***************************************************************************)
\* a handler that arms a timeout without clearing the one before
rearmKeepingOld(n) == n + 1

\* clearTimeout(debounceTimeout); debounceTimeout = setTimeout(...): the armed timeouts
\* of the closure afterwards, n being armed before
rearm(n) == 1

\* an unwatchConfig that clears no timeout
clearNothing(n) == n

\* clearDebounce() in unwatchConfig: clearTimeout(debounceTimeout)
clearDebounce(n) == 0

\* const DEBOUNCE_MS = 150, in ticks of the clock
DebounceTicks == 2

\* the k newest of the armed timeouts
Newest(ages, k) == SubSeq(ages, Len(ages) - k + 1, Len(ages))

EventTypes == {"change", "rename", "other"}

\* a handler whose debounceTimeout is one variable shared by every watched path
armShared(armed, p) == [q \in DOMAIN armed |-> IF q = p THEN rearm(armed[q]) ELSE 0]

\* debounceTimeout is a local of the watchConfig call that made the handler: the
\* handler of p clears and arms the timeout of p only
arm(armed, p) == [armed EXCEPT ![p] = rearm(@)]

\* the handler passed to fs.watch runs for an event on a watched path
Notify(p, eventType) ==
    /\ p \in watchedFiles
    /\ burst[p] < MaxBurst
    /\ IF eventType = "change" \/ eventType = "rename"
       THEN /\ timers' = arm(timers, p)
            /\ debounceAge' = [debounceAge EXCEPT ![p] = Newest(@, rearm(timers[p]) - 1) \o <<0>>]
            /\ burst' = [burst EXCEPT ![p] = @ + 1]
            /\ owed' = [owed EXCEPT ![p] = IF timers[p] = 0 THEN @ + 1 ELSE @]
       ELSE UNCHANGED <<timers, debounceAge, burst, owed>>
    /\ event' = NoEvent
    /\ UNCHANGED <<storeVars, watchedFiles, watchDebounces, callback, watchers, loads, files, writes>>
    /\ UNCHANGED <<saveQueue, logger>>

\* a debounce timeout fires: the timer callback runs up to the await inside loadConfig
TimerFire(p) ==
    /\ timers[p] > 0
    /\ timers' = [timers EXCEPT ![p] = @ - 1]
    /\ debounceAge' = [debounceAge EXCEPT ![p] = Tail(@)]
    /\ burst' = [burst EXCEPT ![p] = 0]
    /\ owed' = [owed EXCEPT ![p] = @ - 1]
    /\ LET sync == loadConfigSync(p, files)
           ld == [path |-> p, origin |-> "watch", cb |-> callback[p], raw |-> NoRaw]
       IN  IF sync.err # ""
           THEN /\ \E h \in HandlerOutcomes(sync.err) : event' = ReloadEvent(ld, sync.err, h)
                /\ UNCHANGED loads
           ELSE /\ Len(loads) < MaxLoads
                /\ loads' = Append(loads, ld)
                /\ event' = NoEvent
    /\ UNCHANGED <<storeVars, watchedFiles, watchDebounces, callback, watchers, files, writes>>
    /\ UNCHANGED <<saveQueue, logger>>

\* a tick of the clock passes while timeouts of p are armed; a timeout that has waited
\* DebounceTicks fires before the next tick
Elapse(p) ==
    /\ debounceAge[p] # <<>>
    /\ \A i \in 1..Len(debounceAge[p]) : debounceAge[p][i] < DebounceTicks
    /\ debounceAge' = [debounceAge EXCEPT ![p] = [i \in 1..Len(@) |-> @[i] + 1]]
    /\ event' = NoEvent
    /\ UNCHANGED <<storeVars, watchedFiles, watchDebounces, callback, timers, burst, owed,
                   watchers, loads, files, writes>>
    /\ UNCHANGED <<saveQueue, logger>>

\* the oldest timeout of p fires when it has waited DebounceTicks
Due(p) ==
    /\ debounceAge[p] # <<>>
    /\ Head(debounceAge[p]) = DebounceTicks
    /\ TimerFire(p)

\* a watchConfig that holds no path to be watched already
neverWatched(absPath, watched) == FALSE

\* watchConfig: this._watchedFiles.has(absPath)
alreadyWatched(absPath, watched) == absPath \in watched

\* a watchConfig that records the canceller before it opens the watcher
withCancellerFirst(cancellers, absPath, opened) == cancellers \cup {absPath}

\* this._watchDebounces.set(absPath, ...) comes after fs.watch(absPath, handler) and
\* after this._watchedFiles.set: it is reached only when the watcher was opened
withCanceller(cancellers, absPath, opened) ==
    IF opened THEN cancellers \cup {absPath} ELSE cancellers

\* watchConfig(arg, cb): nothing for a watched path; fs.watch raises ENOENT for a file
\* that does not exist, before anything is recorded
WatchConfig(arg, cb) ==
    LET absPath == Resolve(arg)
        known == alreadyWatched(absPath, watchedFiles)
    IN
    /\ event' = [NewEvent("watchConfig") EXCEPT
                     !.path = absPath, !.cb = cb, !.watched = (absPath \in watchedFiles),
                     !.err = IF ~known /\ files[absPath] = Missing THEN "ENOENT" ELSE ""]
    /\ IF known
       THEN UNCHANGED <<watchedFiles, watchDebounces, callback, watchers>>
       ELSE LET opened == files[absPath] # Missing IN
            /\ watchedFiles' = IF opened THEN watchedFiles \cup {absPath} ELSE watchedFiles
            /\ watchDebounces' = withCanceller(watchDebounces, absPath, opened)
            /\ callback' = IF opened THEN [callback EXCEPT ![absPath] = cb] ELSE callback
            /\ watchers' = IF opened THEN [watchers EXCEPT ![absPath] = @ + 1] ELSE watchers
    /\ UNCHANGED <<storeVars, timers, debounceAge, burst, owed, loads, files, writes>>
    /\ UNCHANGED <<saveQueue, logger>>

\* an unwatchConfig that leaves the watcher open
leaveOpen(n) == n

\* watcher.close() in unwatchConfig: the open watchers of the path afterwards
closeWatcher(n) == n - 1

UnwatchConfig(arg) ==
    LET absPath == Resolve(arg) IN
    /\ event' = [NewEvent("unwatchConfig") EXCEPT
                     !.path = absPath, !.watched = (absPath \in watchedFiles),
                     !.pending = (absPath \in watchedFiles /\ timers[absPath] > 0)]
    /\ watchedFiles' = watchedFiles \ {absPath}
    /\ watchers' = [watchers EXCEPT ![absPath] =
                        IF absPath \in watchedFiles THEN closeWatcher(@) ELSE @]
    /\ callback' = [callback EXCEPT ![absPath] = NoCallback]
    /\ watchDebounces' = watchDebounces \ {absPath}
    /\ timers' = [timers EXCEPT ![absPath] =
                      IF absPath \in watchDebounces THEN clearDebounce(@) ELSE @]
    /\ debounceAge' = [debounceAge EXCEPT ![absPath] = Newest(@, timers'[absPath])]
    /\ burst' = [burst EXCEPT ![absPath] = IF timers'[absPath] = 0 THEN 0 ELSE @]
    /\ owed' = [owed EXCEPT ![absPath] =
                    IF timers[absPath] > 0 /\ timers'[absPath] = 0 THEN @ - 1 ELSE @]
    /\ UNCHANGED <<storeVars, loads, files, writes>>
    /\ UNCHANGED <<saveQueue, logger>>

\* the environment writes, creates or deletes a file
FileChange(p, content) ==
    /\ content \in ContentsOf(p) \cup {Missing}
    /\ files[p] # content
    /\ files' = [files EXCEPT ![p] = content]
    /\ event' = NoEvent
    /\ UNCHANGED <<storeVars, watchVars, loads, writes>>
    /\ UNCHANGED <<saveQueue, logger>>

(***************************************************************************)
(* getConfig and setConfig as calls on the store.                          *)
(***************************************************************************)
SetConfig(key, value) ==
    LET r == setConfig(config, key, value) IN
    /\ config' = r.v
    /\ event' = [NewEvent("setConfig") EXCEPT !.key = key, !.value = value,
                                              !.before = config,
                                              !.err = IF r.ok THEN "" ELSE "raised"]
    /\ UNCHANGED <<configPath, watchVars, loads, files, writes>>
    /\ UNCHANGED <<saveQueue, logger>>

GetConfig(key) ==
    /\ event' = [NewEvent("getConfig") EXCEPT !.key = key,
                     !.result = getConfig(config, key),
                     !.err = IF getConfig(config, key) = Thrown THEN "raised" ELSE "",
                     !.afterSet = (event.op = "setConfig" /\ event.key = key),
                     !.value = IF event.op = "setConfig" /\ event.key = key
                               THEN event.value ELSE Undefined,
                     !.before = IF event.op = "setConfig" /\ event.key = key
                                THEN event.before ELSE Undefined]
    /\ UNCHANGED <<storeVars, watchVars, loads, files, writes>>
    /\ UNCHANGED <<saveQueue, logger>>

\* the characters of a key argument: none when `!key` holds (no argument, or "")
keyArg(arg) == IF Truthy(arg) THEN arg.s ELSE <<>>

\* getConfig() with no argument
GetConfigNoKey ==
    /\ event' = [NewEvent("getConfig") EXCEPT
                     !.absent = TRUE, !.key = keyArg(Undefined),
                     !.result = getConfig(config, keyArg(Undefined)),
                     !.err = IF getConfig(config, keyArg(Undefined)) = Thrown
                             THEN "raised" ELSE ""]
    /\ UNCHANGED <<storeVars, watchVars, loads, files, writes>>
    /\ UNCHANGED <<saveQueue, logger>>

\* setConfig(undefined, value)
SetConfigNoKey(value) ==
    LET r == setConfig(config, keyArg(Undefined), value) IN
    /\ config' = r.v
    /\ event' = [NewEvent("setConfig") EXCEPT
                     !.absent = TRUE, !.key = keyArg(Undefined), !.value = value,
                     !.before = config, !.err = IF r.ok THEN "" ELSE "raised"]
    /\ UNCHANGED <<configPath, watchVars, loads, files, writes>>
    /\ UNCHANGED <<saveQueue, logger>>

StoreKeys == { <<"a">> }
StoreValues == { Num(7) }

AnyContent == UNION { ContentsOf(p) : p \in CanonPaths } \cup {Missing}

Load == \E arg \in PathArgs : LoadConfig(arg)
Read == \E i \in 1..MaxLoads : ReadFile(i)
Resume == \E i \in 1..MaxLoads : LoadResume(i)
Watch == \E arg \in PathArgs, cb \in Callbacks : WatchConfig(arg, cb)
Unwatch == \E arg \in PathArgs : UnwatchConfig(arg)
Notification == \E p \in CanonPaths, eventType \in EventTypes : Notify(p, eventType)
Timeout == \E p \in CanonPaths : TimerFire(p)
Environment == \E p \in CanonPaths, content \in AnyContent : FileChange(p, content)
Set == \E key \in StoreKeys, value \in StoreValues : SetConfig(key, value)
Get == \E key \in StoreKeys : GetConfig(key)

Next ==
    \/ Load \/ Read \/ Resume \/ Watch \/ Unwatch \/ Notification \/ Timeout
    \/ Environment \/ Set \/ Get

Spec == Init /\ [][Next]_vars

\* the watch entries and the reloads they start
WatchNext == Watch \/ Unwatch \/ Notification \/ Timeout \/ Read \/ Resume \/ Environment

WatchSpec == Init /\ [][WatchNext]_vars

\* the watch entries with two callbacks to tell apart, over files that stay as they are
TwoCallbacks == {"cb1", "cb2"}

WatchEither == \E arg \in PathArgs, cb \in TwoCallbacks : WatchConfig(arg, cb)

EntryNext == WatchEither \/ Unwatch \/ Notification \/ Timeout \/ Read \/ Resume

EntrySpec == Init /\ [][EntryNext]_vars

(***************************************************************************)
(* DocSpec: documents of every root kind.  data.json holds null, a number  *)
(* or a sequence, table.csv holds records; they are loaded while the files *)
(* change, and the document is read and set between the steps of a load.   *)
(***************************************************************************)
MaxDocLoads == 1

DocArgs == { Rel(<<>>, "data", ".json"), Rel(<<>>, "table", ".csv") }
DocPaths == { Resolve(a) : a \in DocArgs }

\* the keys of the calls: "", ".", "[]", a, [0]
DocKeys == { <<>>, <<".">>, <<"[", "]">>, <<"a">>, <<"[", "0", "]">> }
DocValues == { Num(7) }

DocInit ==
    /\ config = EmptyObj
    /\ files = [p \in DocPaths |-> Missing]
    /\ InitService

DocLoad == Len(loads) < MaxDocLoads /\ \E arg \in DocArgs : LoadConfig(arg)
DocEnvironment ==
    \E p \in DocPaths : \E content \in ContentsOf(p) \cup {Missing} : FileChange(p, content)
DocSet == \E key \in DocKeys, value \in DocValues : SetConfig(key, value)
DocGet == \E key \in DocKeys : GetConfig(key)
SetNoKey == \E value \in DocValues : SetConfigNoKey(value)

DocNext ==
    \/ DocLoad \/ Read \/ Resume \/ DocEnvironment
    \/ DocSet \/ DocGet \/ GetConfigNoKey \/ SetNoKey

DocSpec == DocInit /\ [][DocNext]_vars

(***************************************************************************)
(* SaveSpec: cfg.json and settings.ini are loaded, the document is set and *)
(* saved to either, to notes.txt or to the remembered path.                *)
(***************************************************************************)
MaxWrites == 1

SaveLoadArgs == { Rel(<<>>, "cfg", ".json"), Rel(<<>>, "settings", ".ini") }
SaveArgs == SaveLoadArgs \cup { NoPath, Rel(<<>>, "notes", ".txt") }

SaveInit ==
    /\ config = EmptyObj
    /\ files = (CfgJson :> "{\"a\":1}" @@ SettingsIni :> "a=1\n")
    /\ InitService

SaveLoad == Len(loads) < MaxDocLoads /\ \E arg \in SaveLoadArgs : LoadConfig(arg)
Save == Len(writes) < MaxWrites /\ \E savePath \in SaveArgs : SaveConfig(savePath)
Write == \E i \in 1..MaxWrites : WriteFile(i)
SaveSet == SetConfig(<<"a">>, Num(1))

SaveNext == SaveLoad \/ Read \/ Resume \/ Save \/ Write \/ SaveSet

SaveSpec == SaveInit /\ [][SaveNext]_vars

(***************************************************************************)
(* The debounce of one watched cfg.json with the clock: notifications,     *)
(* ticks, and timeouts that fire when their delay has passed.              *)
(***************************************************************************)
DebounceInit ==
    /\ config = EmptyObj
    /\ files = [p \in CanonPaths |-> IF p = CfgJson THEN "{\"a\":1}" ELSE Missing]
    /\ InitService

DebounceWatch == \E cb \in Callbacks : WatchConfig(Rel(<<>>, "cfg", ".json"), cb)
DebounceUnwatch == UnwatchConfig(Rel(<<>>, "cfg", ".json"))
DebounceNotification == \E eventType \in EventTypes : Notify(CfgJson, eventType)
Tick == Elapse(CfgJson)
Expire == Due(CfgJson)

DebounceNext ==
    \/ DebounceWatch \/ DebounceUnwatch \/ DebounceNotification \/ Tick \/ Expire \/ Read \/ Resume

DebounceSpec == DebounceInit /\ [][DebounceNext]_vars

(***************************************************************************)
(* Every call of the API next to a watched cfg.json: direct loads, reads   *)
(* and writes of the document, saves, and the reloads the watcher starts.  *)
(* cfg.json is well formed or cut short at first; notes.txt does not       *)
(* exist, so the calls on it fail.                                         *)
(***************************************************************************)
ApiArgs == { Rel(<<>>, "cfg", ".json"), Rel(<<>>, "notes", ".txt") }

ApiInit ==
    /\ config = EmptyObj
    /\ \E content \in {"{\"a\":1}", "{\"a\":"} :
          files = [p \in CanonPaths |-> IF p = CfgJson THEN content ELSE Missing]
    /\ InitService

ApiLoad == Len(loads) < MaxDocLoads /\ \E arg \in ApiArgs : LoadConfig(arg)
ApiWatch == \E arg \in ApiArgs, cb \in Callbacks : WatchConfig(arg, cb)
ApiUnwatch == \E arg \in ApiArgs : UnwatchConfig(arg)
ApiNotification == \E eventType \in EventTypes : Notify(CfgJson, eventType)
ApiTimeout == Len(loads) < MaxDocLoads /\ TimerFire(CfgJson)
ApiSave == Len(writes) < MaxWrites /\ \E savePath \in ApiArgs \cup {NoPath} : SaveConfig(savePath)
ApiGet == GetConfig(<<"a">>)

ApiNext ==
    \/ ApiLoad \/ Read \/ Resume \/ ApiWatch \/ ApiUnwatch \/ ApiNotification \/ ApiTimeout
    \/ ApiSave \/ Write \/ SaveSet \/ ApiGet

ApiSpec == ApiInit /\ [][ApiNext]_vars

(***************************************************************************)
(* Tables: table.csv is loaded, the document is given a nested mapping or  *)
(* not, and saved to out.csv.                                              *)
(***************************************************************************)
OutCsv == Resolve(Rel(<<>>, "out", ".csv"))

CsvContents ==
    { "key,value\nport,8080\nhost,localhost\n", "k,v\na,1\na,2\n", "k,v,w\na,1,x",
      "k,v\n", "k\na\n", "k,1\na,b\n", "k,v\na\n" }

CsvInit ==
    /\ config = EmptyObj
    /\ \E content \in CsvContents : files = (TableCsv :> content @@ OutCsv :> Missing)
    /\ InitService

CsvLoad == Len(loads) < MaxDocLoads /\ LoadConfig(Rel(<<>>, "table", ".csv"))
CsvSet == SetConfig(<<"a", ".", "b">>, Num(1))
CsvSave == Len(writes) < MaxWrites /\ SaveConfig(Rel(<<>>, "out", ".csv"))

CsvNext == CsvLoad \/ Read \/ Resume \/ CsvSet \/ CsvSave \/ Write

CsvSpec == CsvInit /\ [][CsvNext]_vars

(***************************************************************************)
(* Saves of every outcome, one at a time, next to a watched cfg.json whose *)
(* timeout is armed or not: to the remembered path or to none, to          *)
(* cfg.json, to notes.txt (no format) and to out.csv (no table once the    *)
(* document holds a nested mapping).                                       *)
(***************************************************************************)
FrameInit ==
    /\ config = EmptyObj
    /\ files = [p \in CanonPaths \cup {OutCsv} |-> IF p = CfgJson THEN "{\"a\":1}" ELSE Missing]
    /\ InitService

FrameLoad == loads = <<>> /\ LoadConfig(Rel(<<>>, "cfg", ".json"))
FrameWatch == WatchConfig(Rel(<<>>, "cfg", ".json"), "cb1")
FrameNotification == Notify(CfgJson, "change")
FrameSave ==
    /\ writes = <<>>
    /\ \E savePath \in {NoPath, Rel(<<>>, "cfg", ".json"), Rel(<<>>, "notes", ".txt"),
                         Rel(<<>>, "out", ".csv")} : SaveConfig(savePath)

FrameNext ==
    \/ FrameLoad \/ Read \/ Resume \/ FrameWatch \/ FrameNotification
    \/ CsvSet \/ FrameSave \/ Write

FrameSpec == FrameInit /\ [][FrameNext]_vars

(***************************************************************************)
(* A JSON-representable document saved to cfg.json and loaded back, one    *)
(* call after the other.                                                   *)
(***************************************************************************)
RoundTripInit ==
    /\ config \in JsonDocs
    /\ files = [p \in CanonPaths |-> Missing]
    /\ InitService

RoundTripSave == writes = <<>> /\ loads = <<>> /\ SaveConfig(Rel(<<>>, "cfg", ".json"))
RoundTripLoad == writes = <<>> /\ loads = <<>> /\ LoadConfig(Rel(<<>>, "cfg", ".json"))

RoundTripNext ==
    RoundTripSave \/ Write \/ RoundTripLoad \/ Read \/ Resume \/ GetConfigNoKey

RoundTripSpec == RoundTripInit /\ [][RoundTripNext]_vars

(***************************************************************************)
(* The remembered path: loads by every spelling of the paths, of files     *)
(* that are deleted or cut short meanwhile, next to sets, gets and saves.  *)
(***************************************************************************)
RememberInit ==
    /\ config = EmptyObj
    /\ \E text \in {"text", Missing} :
          files = [p \in CanonPaths |-> IF p = CfgJson THEN "{\"a\":1}" ELSE text]
    /\ InitService

RememberLoad == Len(loads) < MaxDocLoads /\ Load
RememberEnvironment == \E content \in {Missing, "{\"a\":"} : FileChange(CfgJson, content)
RememberSave ==
    Len(writes) < MaxWrites /\ \E savePath \in PathArgs \cup {NoPath} : SaveConfig(savePath)

RememberNext ==
    \/ RememberLoad \/ Read \/ Resume \/ RememberEnvironment \/ SaveSet \/ ApiGet
    \/ RememberSave \/ Write

RememberSpec == RememberInit /\ [][RememberNext]_vars

\* loads, sets, saves and reloads of a watched cfg.json whose top-level value is null or
\* a sequence, or that is cut short
RootContents == { "null", "[1]", "{\"a\":" }

RootInit ==
    /\ config = EmptyObj
    /\ \E content \in RootContents :
          files = [p \in CanonPaths |-> IF p = CfgJson THEN content ELSE Missing]
    /\ InitService

RootLoad == Len(loads) < MaxDocLoads /\ LoadConfig(Rel(<<>>, "cfg", ".json"))
RootWatch == \E cb \in Callbacks : WatchConfig(Rel(<<>>, "cfg", ".json"), cb)
RootNotification == Notify(CfgJson, "change")
RootSave ==
    Len(writes) < MaxWrites /\ \E savePath \in {NoPath, Rel(<<>>, "cfg", ".json")} : SaveConfig(savePath)

RootNext ==
    \/ RootLoad \/ Read \/ Resume \/ RootWatch \/ RootNotification \/ ApiTimeout
    \/ RootSave \/ Write \/ SaveSet

RootSpec == RootInit /\ [][RootNext]_vars

(***************************************************************************)
(* Loads and reloads of cfg.json with sets of a and b before, between and  *)
(* after their steps.                                                      *)
(***************************************************************************)
ReplaceInit ==
    /\ config = EmptyObj
    /\ files = [p \in CanonPaths |-> IF p = CfgJson THEN "{\"a\":2}" ELSE Missing]
    /\ InitService

ReplaceLoad == Len(loads) < MaxDocLoads /\ LoadConfig(Rel(<<>>, "cfg", ".json"))
ReplaceWatch == WatchConfig(Rel(<<>>, "cfg", ".json"), "cb1")
ReplaceNotification == Notify(CfgJson, "change")
ReplaceSet == \E key \in {<<"a">>, <<"b">>} : SetConfig(key, Num(7))
ReplaceResume == \E i \in 1..Len(loads) : Complete(i, TRUE)

ReplaceNext ==
    \/ ReplaceLoad \/ Read \/ ReplaceResume \/ ReplaceWatch \/ ReplaceNotification \/ ApiTimeout
    \/ ReplaceSet

ReplaceSpec == ReplaceInit /\ [][ReplaceNext]_vars

(***************************************************************************)
(* The reloads of one watched cfg.json whose every change is notified: the *)
(* file is rewritten, the handler of fs.watch runs, timeouts fire, and the *)
(* reads and continuations of the reloads take the time they take.         *)
(***************************************************************************)
RaceContents == { "{\"a\":1}", "{\"a\":2}" }

\* the environment rewrites a watched file and fs.watch runs the handler with 'change'
ChangeNotified(p, content) ==
    /\ p \in watchedFiles
    /\ burst[p] < MaxBurst
    /\ files[p] # content
    /\ files' = [files EXCEPT ![p] = content]
    /\ timers' = [timers EXCEPT ![p] = rearm(@)]
    /\ debounceAge' = [debounceAge EXCEPT ![p] = Newest(@, rearm(timers[p]) - 1) \o <<0>>]
    /\ burst' = [burst EXCEPT ![p] = @ + 1]
    /\ owed' = [owed EXCEPT ![p] = IF timers[p] = 0 THEN @ + 1 ELSE @]
    /\ event' = NoEvent
    /\ UNCHANGED <<storeVars, watchedFiles, watchDebounces, callback, watchers, loads, writes>>
    /\ UNCHANGED <<saveQueue, logger>>

RaceInit ==
    /\ config = EmptyObj
    /\ \E content \in RaceContents :
           files = [p \in CanonPaths |-> IF p = CfgJson THEN content ELSE Missing]
    /\ InitService

RaceWatch == WatchConfig(Rel(<<>>, "cfg", ".json"), "cb1")
RaceChange == \E content \in RaceContents : ChangeNotified(CfgJson, content)
RaceTimeout == TimerFire(CfgJson)

RaceNext == RaceWatch \/ RaceChange \/ RaceTimeout \/ Read \/ Resume

RaceSpec == RaceInit /\ [][RaceNext]_vars

\* direct loads, with the calls that change and read the document
LoadNext == Load \/ Read \/ Resume \/ Environment \/ Set \/ Get

LoadSpec == Init /\ [][LoadNext]_vars

(***************************************************************************)
(* PathSpec: one setConfig on a document, and getConfig calls.             *)
(***************************************************************************)
MaxSegs == 3

Key(name) == [form |-> "key", chars |-> <<name>>]
Index(digits) == [form |-> "index", chars |-> digits]

\* the segments the paths are written from: names, a name of digits, bracketed indices
Pieces == { Key("a"), Key("b"), Key("length"), Key("0"), Index(<<"0">>), Index(<<"1">>) }

\* the path string that writes the pieces ps: a.b[0].c
RECURSIVE Render(_)
Render(ps) ==
    IF ps = <<>> THEN <<>>
    ELSE LET init == Render(SubSeq(ps, 1, Len(ps) - 1))
             p == ps[Len(ps)]
         IN  IF p.form = "index" THEN init \o <<"[">> \o p.chars \o <<"]">>
             ELSE IF init = <<>> THEN p.chars
             ELSE init \o <<".">> \o p.chars

RECURSIVE PieceSeqs(_)
PieceSeqs(n) ==
    IF n = 0 THEN {<<>>}
    ELSE LET shorter == PieceSeqs(n - 1) IN
         shorter \cup { Append(ps, p) : ps \in { x \in shorter : Len(x) = n - 1 }, p \in Pieces }

\* the well-formed, non-empty paths of at most MaxSegs segments
WellFormedPaths == { Render(ps) : ps \in PieceSeqs(MaxSegs) \ {<<>>} }

\* the paths of the examples: arr.0.name, arr[0].name, a.b.c
ExamplePaths ==
    { <<"arr", ".", "0", ".", "name">>, <<"arr", "[", "0", "]", ".", "name">>,
      <<"a", ".", "b", ".", "c">> }

\* the empty path and malformed ones: a..b, [a], a], [0
OtherPaths ==
    { <<>>, <<"a", ".", ".", "b">>, <<"[", "a", "]">>, <<"a", "]">>, <<"[", "0">> }

SetPaths == WellFormedPaths \cup ExamplePaths \cup OtherPaths

SetValues == { Num(2), Str(<<"x">>), Null }

One == Num(1)

\* the documents setConfig is applied to, all with a mapping root:
\* {}, {a: 1}, {a: "s"}, {a: null}, {a: {b: 1}}, {a: {b: [1]}}, {a: []}, {a: [1]}, {a: [{b: 1}]}
InitDocs ==
    { EmptyObj,
      Obj(<<"a">> :> One),
      Obj(<<"a">> :> Str(<<"s">>)),
      Obj(<<"a">> :> Null),
      Obj(<<"a">> :> Obj(<<"b">> :> One)),
      Obj(<<"a">> :> Obj(<<"b">> :> Arr(<<One>>))),
      Obj(<<"a">> :> EmptyArr),
      Obj(<<"a">> :> Arr(<<One>>)),
      Obj(<<"a">> :> Arr(<<Obj(<<"b">> :> One)>>)) }

ProbePaths == { <<"a">>, <<"a", ".", "b">>, <<"a", "[", "0", "]">>, <<"arr">> }

PathInit ==
    /\ config \in InitDocs
    /\ files = [p \in CanonPaths |-> Missing]
    /\ InitService

PathSet == event.op = "" /\ \E key \in SetPaths, value \in SetValues : SetConfig(key, value)
PathGet == \E key \in ProbePaths \cup {event.key} : GetConfig(key)

PathNext == PathSet \/ PathGet

PathSpec == PathInit /\ [][PathNext]_vars

(***************************************************************************)
(* Documents as trees, for stating the properties: the node a sequence of  *)
(* segments leads to (a key of a mapping, an index of a sequence), and the *)
(* container that holds nothing but the rest of a path.                    *)
(***************************************************************************)
Absent == Undefined

ChildOf(node, seg) ==
    LET key == ToPropertyKey(seg) IN
    IF node.t = "object" /\ key \in DOMAIN node.m THEN node.m[key]
    ELSE IF node.t = "array" /\ IsIndexKey(key) /\ DecimalValue(key) < Len(node.e)
    THEN node.e[DecimalValue(key) + 1]
    ELSE Absent

RECURSIVE NodeAt(_, _)
NodeAt(node, segs) ==
    IF segs = <<>> THEN node ELSE NodeAt(ChildOf(node, Head(segs)), Tail(segs))

IsScalar(v) == v.t \in {"number", "string", "boolean"}

\* the kind of container a segment is applied to
KindFor(seg) == IF seg.t = "number" THEN "array" ELSE "object"

\* the empty container for segs[j], filled with the rest of the path and the value
RECURSIVE Fresh(_, _, _)
Fresh(segs, j, value) ==
    PutProp(IF KindFor(segs[j]) = "array" THEN EmptyArr ELSE EmptyObj, segs[j],
            IF j = Len(segs) THEN value ELSE Fresh(segs, j + 1, value))

Prefix(segs, i) == SubSeq(segs, 1, i)

ArrDot0Name == <<"arr", ".", "0", ".", "name">>
ArrBracket0Name == <<"arr", "[", "0", "]", ".", "name">>
ABC == <<"a", ".", "b", ".", "c">>

(***************************************************************************)
(* Properties of the watch entries (WatchSpec).                            *)
(***************************************************************************)
\* Every debounce window, however many notifications fall into it, starts exactly one
\* loadConfig: a window is owed a reload exactly while its timeout is armed.
OneLoadPerWindow ==
    \A p \in CanonPaths : owed[p] = IF timers[p] > 0 THEN 1 ELSE 0

\* C1: N >= 1 notifications that each arrive before the timer armed by the one before
\* has fired cause exactly one loadConfig call and, if that load succeeds, exactly one
\* invocation of the callback and exactly one 'configChanged' emission.
C1_OneReloadOneNotification ==
    /\ OneLoadPerWindow
    /\ (event.op = "reload" /\ event.err = "") => (event.cbCalls = 1 /\ event.changed = 1)

\* C2: unwatchConfig on a Pending entry suppresses the reload: the timeout is disarmed,
\* no loadConfig is started, nothing is invoked or emitted, the document is unchanged;
\* and no timeout is ever armed for a path that has no entry, so none can fire later.
C2_UnwatchSuppressesPending ==
    /\ [](\A p \in CanonPaths : timers[p] > 0 => p \in watchedFiles)
    /\ [][\A p \in CanonPaths :
            (p \in watchedFiles /\ timers[p] > 0 /\ p \notin watchedFiles')
                => /\ timers'[p] = 0
                   /\ loads' = loads
                   /\ config' = config /\ configPath' = configPath
                   /\ event'.op = "unwatchConfig"
                   /\ event'.cbCalls = 0 /\ event'.changed = 0 /\ event'.reloadError = 0]_vars

C2_Witness ==
    /\ event.op = "unwatchConfig" /\ event.pending
    /\ \A p \in CanonPaths : timers[p] = 0 /\ p \notin watchedFiles
    /\ loads = <<>>

\* C3 as claimed: a failed watch-triggered reload leaves the document and the remembered
\* path as they were, emits 'configReloadError', invokes no callback, emits no
\* 'configChanged', and no error leaves the timer callback.
C3_FailedReload ==
    [][(event'.op = "reload" /\ event'.err # "")
          => /\ config' = config /\ configPath' = configPath
             /\ event'.reloadError = 1 /\ event'.cbCalls = 0 /\ event'.changed = 0
             /\ ~event'.escaped]_vars

\* C3 as amended: the same, but an error leaves the timer callback exactly when a
\* 'configReloadError' subscriber raises.
C3_FailedReloadAmended ==
    [][(event'.op = "reload" /\ event'.err # "")
          => /\ config' = config /\ configPath' = configPath
             /\ event'.reloadError = 1 /\ event'.cbCalls = 0 /\ event'.changed = 0
             /\ event'.escaped = event'.subscriberRaised]_vars

C3_Witness ==
    /\ event.op = "reload" /\ event.err = "ParseError"
    /\ event.reloadError = 1 /\ ~event.escaped
    /\ config = A1 /\ configPath = CfgJson

\* C4: every watch-triggered reload whose decode succeeds replaces the document, delivers
\* 'changed' to the callback and to every 'configChanged' subscriber and emits no
\* 'configReloadError', whatever the callback or a subscriber does.
C4_SuccessfulReloadNotifiesAll ==
    (event.op = "reload" /\ event.err = "")
        => /\ config \in {A1, A2} /\ configPath = event.path
           /\ event.cbCalls = 1 /\ event.changed = 1 /\ event.delivered = Subscribers
           /\ event.reloadError = 0

(***************************************************************************)
(* Properties of loadConfig (LoadSpec).                                    *)
(***************************************************************************)
\* C5: loadConfig on a path whose file does not exist rejects with FileNotFoundError and
\* leaves the document and the remembered path as they were (and nothing in flight).
C5_LoadMissingFile ==
    [][(event'.op = "loadConfig" /\ ~event'.existed)
          => /\ event'.err = "FileNotFound"
             /\ config' = config /\ configPath' = configPath /\ loads' = loads]_vars

C5_Witness ==
    /\ event.op = "loadConfig" /\ ~event.existed /\ event.err = "FileNotFound"
    /\ event.path = CfgJson
    /\ config = A2 /\ configPath = CfgJson

\* C6: loadConfig on a path with an unsupported extension makes no file-system call and
\* fails with UnsupportedFormatError whether or not the file exists.
C6_UnsupportedBeforeIO ==
    (event.op = "loadConfig" /\ detectFormat(event.path) = Unsupported)
        => (event.err = "UnsupportedFormat" /\ event.io = <<>>)

(***************************************************************************)
(* Properties of the paths (PathSpec).                                     *)
(***************************************************************************)
\* C7: setConfig("arr.0.name", "x") on the empty document yields {arr: [{name: "x"}]},
\* and on any document arr.0.name does what the bracket form arr[0].name does.
C7_DottedDigitsAreIndex ==
    (event.op = "setConfig" /\ event.key = ArrDot0Name)
        => /\ config = setConfig(event.before, ArrBracket0Name, event.value).v
           /\ (event.before = EmptyObj /\ event.value = Str(<<"x">>))
                 => config = Obj(<<"arr">> :> Arr(<<Obj(<<"name">> :> Str(<<"x">>))>>))

\* C8: for a mapping root, a well-formed non-empty path P and a value V, getConfig(P)
\* right after setConfig(P, V) returns V.
C8_GetAfterSet ==
    (event.op = "getConfig" /\ event.afterSet /\ event.key \in WellFormedPaths)
        => event.result = event.value

\* C9: after setConfig, the node before every non-final segment is a container of the
\* kind the next segment requires, and where the existing node was not of that kind it
\* is a new container that holds only the rest of the path.
C9_ContainerForNextSegment ==
    event.op = "setConfig" =>
        LET segs == parsePath(event.key) IN
        \A i \in 1..(Len(segs) - 1) :
            LET old == NodeAt(event.before, Prefix(segs, i))
                new == NodeAt(config, Prefix(segs, i))
            IN  /\ new.t = KindFor(segs[i + 1])
                /\ old.t # KindFor(segs[i + 1]) => new = Fresh(segs, i + 1, event.value)

C11_AbsentThroughScalar ==
    event.op = "getConfig" =>
        LET segs == parsePath(event.key) IN
        (\E i \in 0..(Len(segs) - 1) :
            LET node == NodeAt(config, Prefix(segs, i)) IN IsScalar(node) \/ node = Null)
            => event.result = Absent

(***************************************************************************)
(* Properties of the watch entries (EntrySpec).                            *)
(***************************************************************************)
\* C14: there is at most one entry, and one open watcher, per canonical path; watchConfig
\* on a watched path, however it is spelled and whatever callback it passes, opens no
\* watcher and changes nothing, the timer and the registered callback included; and the
\* callback a reload invokes is the one registered with the entry.
C14_OneEntryPerPath ==
    /\ [](\A p \in CanonPaths :
            /\ watchers[p] = (IF p \in watchedFiles THEN 1 ELSE 0)
            /\ p \in watchedFiles <=> p \in watchDebounces
            /\ p \in watchedFiles <=> callback[p] # NoCallback)
    /\ [][
          /\ (event'.op = "watchConfig" /\ event'.watched)
               => (event'.err = "" /\ UNCHANGED <<watchVars, storeVars, loads, files, writes>>)
          /\ (Len(loads') > Len(loads) /\ loads'[Len(loads')].origin = "watch")
               => loads'[Len(loads')].cb = callback[loads'[Len(loads')].path]
          /\ (event'.op = "reload" /\ loads' = loads)
               => event'.cb = callback[event'.path]
          /\ (event'.op = "reload" /\ loads' # loads)
               => \E i \in 1..Len(loads) :
                     loads[i].origin = "watch" /\ loads[i].path = event'.path
                        /\ loads[i].cb = event'.cb
       ]_vars

C14_Witness ==
    /\ event.op = "watchConfig" /\ event.watched /\ event.path = CfgJson
    /\ event.cb = "cb2" /\ callback[CfgJson] = "cb1"
    /\ timers[CfgJson] > 0 /\ watchers[CfgJson] = 1

\* C15: unwatchConfig raises nothing and leaves no entry, no open watcher and no armed
\* timeout for the path; on a path without an entry, and so when called a second time
\* in a row, it changes nothing; the entries of other paths are left alone.
C15_UnwatchIdempotent ==
    [][event'.op = "unwatchConfig" =>
          LET p == event'.path IN
          /\ event'.err = ""
          /\ p \notin watchedFiles' /\ p \notin watchDebounces'
          /\ watchers'[p] = 0 /\ timers'[p] = 0 /\ callback'[p] = NoCallback
          /\ (~event'.watched => UNCHANGED <<watchVars, storeVars, loads, files, writes>>)
          /\ ((event.op = "unwatchConfig" /\ event.path = p)
                => UNCHANGED <<watchVars, storeVars, loads, files, writes>>)
          /\ \A q \in CanonPaths \ {p} :
                /\ q \in watchedFiles' <=> q \in watchedFiles
                /\ watchers'[q] = watchers[q] /\ timers'[q] = timers[q]
                /\ callback'[q] = callback[q]]_vars

C15_Witness ==
    /\ event.op = "unwatchConfig" /\ ~event.watched /\ event.path = CfgJson
    /\ NotesTxt \in watchedFiles /\ timers[NotesTxt] > 0 /\ watchers[NotesTxt] = 1

(***************************************************************************)
(* Properties of getConfig, setConfig and loadConfig over documents of     *)
(* every root kind (DocSpec).                                              *)
(***************************************************************************)
\* C12: getConfig never raises, whatever the root of the document (null, a scalar and
\* a sequence included) and whatever the path string: it returns a value or absent and
\* leaves the document and the remembered path as they were.
C12_GetNeverRaises ==
    [][event'.op = "getConfig"
          => /\ event'.err = "" /\ event'.result # Thrown
             /\ config' = config /\ configPath' = configPath]_vars

C12_Witness ==
    /\ event.op = "getConfig" /\ event.key = <<"a">>
    /\ config = Null /\ event.result = Absent /\ event.err = ""

\* C13: with no key, with the empty key and with any key that parses to no segment,
\* getConfig returns the whole document and setConfig returns without changing it.
C13_EmptyPathWholeDocument ==
    [][(event'.op \in {"getConfig", "setConfig"} /\ parsePath(event'.key) = <<>>)
          => /\ event'.err = ""
             /\ config' = config
             /\ event'.op = "getConfig" => event'.result = config]_vars

C13_Witness ==
    /\ event.op = "setConfig" /\ event.absent /\ event.err = ""
    /\ event.before = Arr(<<Num(1)>>) /\ config = Arr(<<Num(1)>>)

\* the document each content decodes to, written out
FullDoc(raw) ==
    CASE raw = "null" -> Null
      [] raw = "7" -> Num(7)
      [] raw = "[1]" -> Arr(<<Num(1)>>)
      [] raw = "{\"a\":1}" -> Obj(<<"a">> :> Num(1))
      [] raw = "{\n  \"a\": 1\n}" -> Obj(<<"a">> :> Num(1))
      [] raw = "{}" -> Obj(<<>>)
      [] raw = "k,v\na,1\nb,2" -> Obj(<<"a">> :> Str(<<"1">>) @@ <<"b">> :> Str(<<"2">>))
      [] raw = "k,v,w\na,1,x" ->
            Obj(<<"records">> :>
                Arr(<< Obj(<<"k">> :> Str(<<"a">>) @@ <<"v">> :> Str(<<"1">>)
                           @@ <<"w">> :> Str(<<"x">>)) >>))
      [] OTHER -> Undefined

\* C16: the document changes only in a setConfig call or in the step that completes a
\* load, and that step puts the whole document decoded from the content read in place
\* of the one before; a getConfig for the whole document, at any point of a load in
\* flight, returns the document as it then is: the old one or the new one, in full.
C16_GetSeesWholeDocument ==
    [][/\ config' # config
            => \/ event'.op = "setConfig"
               \/ /\ event'.op \in {"loadConfig settled", "reload"} /\ event'.err = ""
                  /\ \E i \in 1..Len(loads) :
                        /\ loads[i].path = event'.path /\ loads' = Remove(loads, i)
                        /\ config' = FullDoc(loads[i].raw)
       /\ (event'.op = "getConfig" /\ event'.key = <<>>)
            => (event'.result = config /\ config' = config)]_vars

C16_Witness ==
    /\ event.op = "getConfig" /\ event.key = <<>>
    /\ Len(loads) = 1 /\ loads[1].path = TableCsv /\ loads[1].raw = "k,v\na,1\nb,2"
    /\ config = Arr(<<Num(1)>>) /\ event.result = Arr(<<Num(1)>>)

(***************************************************************************)
(* Properties of saveConfig (SaveSpec).                                    *)
(***************************************************************************)
\* a load completed without an error in this step
LoadSucceeded == event'.op \in {"loadConfig settled", "reload"} /\ event'.err = ""

\* C17: the remembered path is the path of the load that succeeded last; saveConfig()
\* without a path writes to it, and when no load has succeeded it fails with SaveError,
\* starts no write and changes no file.  A file changes only by the write of a save.
C17_SaveWithoutPath ==
    [][/\ LoadSucceeded => configPath' = event'.path
       /\ configPath' # configPath => LoadSucceeded
       /\ (event'.op = "saveConfig" /\ event'.absent /\ configPath = NoPath)
            => (event'.err = "SaveError" /\ writes' = writes /\ files' = files)
       /\ (event'.op = "saveConfig" /\ event'.absent /\ configPath # NoPath)
            => /\ event'.path = configPath
               /\ event'.err = ""
               /\ writes' = Append(writes, [path |-> configPath, out |-> event'.out])
       /\ files' # files
            => /\ event'.op = "saveConfig settled"
               /\ [path |-> event'.path, out |-> event'.out] \in { writes[i] : i \in 1..Len(writes) }
               /\ files' = [files EXCEPT ![event'.path] = event'.out]]_vars

C17_Witness ==
    /\ event.op = "saveConfig" /\ event.absent /\ event.err = ""
    /\ configPath = SettingsIni /\ event.path = SettingsIni
    /\ writes = << [path |-> SettingsIni, out |-> "a=1\n"] >>

\* the text of each document of SaveSpec in each format, written out
TextIn(format, doc) ==
    CASE format = "json" /\ doc = EmptyObj -> "{}"
      [] format = "json" /\ doc = A1 -> "{\n  \"a\": 1\n}"
      [] format = "json" /\ doc = Obj(<<"a">> :> Str(<<"1">>)) -> "{\n  \"a\": \"1\"\n}"
      [] format = "ini" /\ doc = EmptyObj -> ""
      [] format = "ini" /\ doc = A1 -> "a=1\n"
      [] format = "ini" /\ doc = Obj(<<"a">> :> Str(<<"1">>)) -> "a=1\n"
      [] OTHER -> "<no text>"

\* C18: saveConfig(path) writes the current document in the format of the extension of
\* the target, whatever file the document was loaded from: loaded from settings.ini and
\* saved to cfg.json it is written as JSON; a target with an unsupported extension is
\* refused without a write.
C18_FormatOfTarget ==
    [][event'.op = "saveConfig" =>
          /\ ~event'.absent => event'.path \in {CfgJson, SettingsIni, NotesTxt}
          /\ event'.err = ""
               => /\ event'.out = TextIn(detectFormat(event'.path), config)
                  /\ writes' = Append(writes, [path |-> event'.path, out |-> event'.out])
          /\ (event'.path # NoPath /\ detectFormat(event'.path) = Unsupported)
               => (event'.err = "UnsupportedFormat" /\ writes' = writes)]_vars

C18_Witness ==
    /\ event.op = "saveConfig" /\ ~event.absent /\ event.path = CfgJson /\ event.err = ""
    /\ configPath = SettingsIni /\ config = Obj(<<"a">> :> Str(<<"1">>))
    /\ event.out = "{\n  \"a\": \"1\"\n}"

(***************************************************************************)
(* Properties of the calls next to a watched file (ApiSpec).               *)
(***************************************************************************)
\* C19: the step that completes a load or a watch-triggered reload without an error puts
\* the document decoded from the content read in place of the one before; from then on
\* the document changes only by setConfig (here a = 1) or by the completion of another
\* load; and a saveConfig encodes the document as it is at the call and hands that text
\* to the write.  A save that begins after the completion therefore writes the reloaded
\* document with the later sets applied, not the one of before the reload.
C19_SaveSeesReloadedDocument ==
    [][/\ LoadSucceeded
            => \E i \in 1..Len(loads) :
                  /\ loads[i].path = event'.path /\ loads' = Remove(loads, i)
                  /\ config' = FullDoc(loads[i].raw)
       /\ event'.op = "setConfig" => config' = Obj(<<"a">> :> Num(1))
       /\ (~LoadSucceeded /\ event'.op # "setConfig") => config' = config
       /\ (event'.op = "saveConfig" /\ event'.err = "")
            => /\ event'.out = TextIn("json", config)
               /\ writes' = Append(writes, [path |-> event'.path, out |-> event'.out])
       /\ event'.op = "saveConfig settled"
            => /\ [path |-> event'.path, out |-> event'.out] \in { writes[i] : i \in 1..Len(writes) }
               /\ files'[event'.path] = event'.out]_vars

\* a save that begins with nothing in flight, after a reload of the watched cfg.json that
\* held {} and a set of a: the text is that of {a: 1}
C19_Witness ==
    /\ event.op = "saveConfig" /\ event.err = "" /\ event.path = CfgJson
    /\ loads = <<>> /\ writes = << [path |-> CfgJson, out |-> "{\n  \"a\": 1\n}"] >>
    /\ CfgJson \in watchedFiles /\ configPath = CfgJson
    /\ files[CfgJson] = "{}" /\ config = A1

\* C20: only the timer callback of a watch entry invokes a callback or emits
\* 'configChanged' or 'configReloadError': a step that is not the end of a
\* watch-triggered reload (a direct loadConfig or its completion, getConfig, setConfig,
\* saveConfig or its write, watchConfig, unwatchConfig, failed or not) invokes and emits
\* nothing, and a step that does is the end of a reload a debounce timeout started.
C20_NotificationsOnlyFromReloads ==
    [][/\ event'.op # "reload"
            => /\ event'.cbCalls = 0 /\ event'.changed = 0
               /\ event'.delivered = 0 /\ event'.reloadError = 0
       /\ event'.op = "reload"
            => \/ \E i \in 1..Len(loads) :
                     loads[i].origin = "watch" /\ loads' = Remove(loads, i)
               \/ timers'[event'.path] < timers[event'.path]]_vars

\* a direct loadConfig of the watched cfg.json completes: no callback, no event
C20_Witness ==
    /\ event.op = "loadConfig settled" /\ event.err = "" /\ event.path = CfgJson
    /\ CfgJson \in watchedFiles /\ callback[CfgJson] = "cb1"
    /\ event.cbCalls = 0 /\ event.changed = 0 /\ event.reloadError = 0

(***************************************************************************)
(* Properties of the debounce with the clock (DebounceSpec).               *)
(***************************************************************************)
\* the timer callback of the entry of p starts to run in this step
ReloadStarted(p) ==
    \/ \E cb \in Callbacks \cup {NoCallback} :
          loads' = Append(loads, [path |-> p, origin |-> "watch", cb |-> cb, raw |-> NoRaw])
    \/ event'.op = "reload" /\ event'.path = p /\ loads' = loads

\* the ticks since the most recent notification of p: the wait of the timeout armed last
SinceLastNotification(p) == debounceAge[p][Len(debounceAge[p])]

\* C21: a change or rename notification leaves exactly one timeout armed, with its whole
\* delay ahead, whatever was armed before; and a reload starts only in a step where
\* DebounceTicks have passed since the most recent notification of the entry.
C21_WindowRestarts ==
    [][\A p \in CanonPaths :
          /\ (burst'[p] = burst[p] + 1) => (timers'[p] = 1 /\ debounceAge'[p] = <<0>>)
          /\ ReloadStarted(p)
               => /\ debounceAge[p] # <<>>
                  /\ SinceLastNotification(p) = DebounceTicks
                  /\ timers'[p] = 0]_vars

\* a reload is in flight that started after a window with a second notification in it
C21_Witness ==
    /\ \E i \in 1..Len(loads) : loads[i].origin = "watch" /\ loads[i].path = CfgJson
    /\ timers[CfgJson] = 1 /\ burst[CfgJson] = 2 /\ debounceAge[CfgJson] = <<0>>

(***************************************************************************)
(* Properties of the document root (RootSpec).                             *)
(***************************************************************************)
\* C22: the document is the empty mapping at construction, and in every state reached by
\* loads that succeed or fail, sets, saves and watch-triggered reloads it is a value
\* other than undefined.
C22_RootPresent == config = EmptyObj /\ [](config # Undefined /\ config.t # "undefined")

\* a reload failed on the cut-short cfg.json after a save wrote the document elsewhere
\* in time: the root is what it was
C22_Witness ==
    /\ event.op = "reload" /\ event.err = "ParseError"
    /\ config = EmptyObj /\ files[CfgJson] = "{\"a\":"

(***************************************************************************)
(* Properties of the remembered path (RememberSpec).                       *)
(***************************************************************************)
\* C23: the step that completes a load without an error puts the document decoded from
\* the content read in place and remembers the canonical path of the file, both at once;
\* a step that is anything else (a load that fails before or after the read, the call of
\* a load up to its read, setConfig, getConfig, saveConfig with or without a path, the
\* write of a save) leaves the remembered path as it is, and apart from setConfig the
\* document too.
C23_LoadRemembersPath ==
    [][/\ LoadSucceeded
            => \E i \in 1..Len(loads) :
                  /\ loads' = Remove(loads, i)
                  /\ loads[i].path \in CanonPaths
                  /\ event'.path = loads[i].path
                  /\ config' = FullDoc(loads[i].raw)
                  /\ configPath' = loads[i].path
       /\ ~LoadSucceeded => configPath' = configPath
       /\ (~LoadSucceeded /\ event'.op # "setConfig") => config' = config
       /\ event'.op = "loadConfig" => event'.path \in CanonPaths]_vars

\* a load of notes.txt is refused after a load of cfg.json succeeded: cfg.json stays the
\* remembered path
C23_Witness ==
    /\ event.op = "loadConfig" /\ event.err = "UnsupportedFormat" /\ event.path = NotesTxt
    /\ configPath = CfgJson /\ config = A1

(***************************************************************************)
(* Properties of the JSON round trip (RoundTripSpec).                      *)
(***************************************************************************)
\* C26: for every JSON-representable document, JSON.parse of the text JSON.stringify
\* writes for it gives the document back; and in the store, where the file holds only
\* what saveConfig wrote, a load of the saved file leaves the document as it was before
\* the save, which is what getConfig() returns.
C26_JsonRoundTrip ==
    /\ [](decode("json", encode("json", config).text) = [ok |-> TRUE, v |-> config])
    /\ [][/\ config' = config
          /\ LoadSucceeded
               => \E i \in 1..Len(loads) : loads[i].raw = JSONstringify(config, <<>>)
          /\ event'.op = "getConfig" => event'.result = config]_vars

\* a nested document with a string of a quote and a backslash is back after the load
C26_Witness ==
    /\ event.op = "loadConfig settled" /\ event.err = "" /\ writes = <<>>
    /\ config = Obj(<<"a">> :> Arr(<<Str(<<"\"", "\\">>), Null>>))
    /\ files[CfgJson] = "{\n  \"a\": [\n    \"\\\"\\\\\",\n    null\n  ]\n}"

(***************************************************************************)
(* Properties of the tables (CsvSpec).                                     *)
(***************************************************************************)
S(text) == Str(<<text>>)

\* the document the rows of each table of CsvSpec give, written out: a mapping from the
\* first column to the second for two columns, {records: rows} otherwise
TableDoc(raw) ==
    CASE raw = "key,value\nport,8080\nhost,localhost\n" ->
            Obj(<<"port">> :> Str(<<"8", "0", "8", "0">>) @@ <<"host">> :> S("localhost"))
      [] raw = "k,v\na,1\na,2\n" -> Obj(<<"a">> :> S("2"))
      [] raw = "k,1\na,b\n" -> Obj(<<"a">> :> S("b"))
      [] raw = "k,v,w\na,1,x" ->
            Obj(<<"records">> :>
                Arr(<< Obj(<<"k">> :> S("a") @@ <<"v">> :> S("1") @@ <<"w">> :> S("x")) >>))
      [] raw = "k,v\n" -> Obj(<<"records">> :> Arr(<<>>))
      [] raw = "k\na\n" -> Obj(<<"records">> :> Arr(<< Obj(<<"k">> :> S("a")) >>))
      [] OTHER -> Undefined

\* C25: a load of a table whose rows have two columns makes the document the mapping
\* from the first-column value of each row to its second-column value, strings both, a
\* later row replacing an earlier one of the same key; with no rows or another number
\* of columns the document becomes {records: rows}.
C25_TableDecode ==
    [][(LoadSucceeded /\ event'.path = TableCsv)
          => \E i \in 1..Len(loads) :
                /\ loads[i].path = TableCsv /\ loads' = Remove(loads, i)
                /\ config' = TableDoc(loads[i].raw)]_vars

\* the scalars of a flat mapping
IsFlat(doc) ==
    /\ doc.t = "object"
    /\ \A name \in DOMAIN doc.m : doc.m[name].t \in {"string", "number", "boolean", "null"}

HasRecords(doc) ==
    /\ doc.t = "object"
    /\ <<"records">> \in DOMAIN doc.m
    /\ doc.m[<<"records">>].t = "array"

\* the rows a document is to be written as
RowsOf(doc) ==
    IF IsFlat(doc)
    THEN [i \in 1..Len(ObjectEntries(doc)) |->
             << [col |-> <<"key">>, val |-> Str(ObjectEntries(doc)[i].col)],
                [col |-> <<"value">>, val |-> ObjectEntries(doc)[i].val] >>]
    ELSE [i \in 1..Len(doc.m[<<"records">>].e) |-> ObjectEntries(doc.m[<<"records">>].e[i])]

\* C24: a save to a .csv path writes a mapping of scalars as the two columns key and
\* value, writes a document with a records sequence (the document a table with other
\* than two columns was decoded to among them) as the header and rows of those records,
\* and for every other document fails and writes nothing.
C24_TableEncode ==
    [][(event'.op = "saveConfig" /\ event'.path = OutCsv)
          => IF IsFlat(config) \/ HasRecords(config)
             THEN /\ event'.err = ""
                  /\ event'.out = Concat(csvStringify(RowsOf(config)))
                  /\ writes' = Append(writes, [path |-> OutCsv, out |-> event'.out])
             ELSE event'.err # "" /\ writes' = writes /\ files' = files]_vars

\* C28: setConfig has no failure outcome: on every document that loads and sets lead
\* to, the documents of a JSON file whose top-level value is null, a number or a
\* sequence among them, and for every key, the call returns normally.
C28_SetReturnsNormally ==
    [][(event'.op = "setConfig") => (event'.err = "")]_vars

(***************************************************************************)
(* Properties of what starts a reload (ApiSpec).                           *)
(***************************************************************************)
\* the reloads of p that are awaiting their read or their continuation
InFlight(p) == Len(SelectSeq(loads, LAMBDA ld : ld.path = p /\ ld.origin = "watch"))

\* the armed timeouts of p and its reloads in flight
Busy(p) == timers[p] + InFlight(p)

\* C27: nothing is retried: a watch-triggered reload that fails arms no timeout and
\* starts no loadConfig (the entry has one thing less to do); a timeout is armed only by
\* a file-change notification; and a watch-triggered loadConfig begins only by an
\* armed timeout firing, which it uses up.
C27_NoAutomaticRetry ==
    [][\A p \in CanonPaths :
          /\ (event'.op = "reload" /\ event'.path = p /\ event'.err # "")
                => /\ timers'[p] <= timers[p]
                   /\ InFlight(p)' <= InFlight(p)
                   /\ Busy(p)' = Busy(p) - 1
          /\ (timers'[p] > timers[p])
                => (p \in watchedFiles /\ event' = NoEvent /\ burst'[p] = burst[p] + 1)
          /\ (InFlight(p)' > InFlight(p))
                => (timers[p] > 0 /\ timers'[p] = timers[p] - 1)]_vars

\* a reload of the watched cfg.json has failed and left the entry with nothing to do
C27_Witness ==
    /\ event.op = "reload" /\ event.path = CfgJson /\ event.err # ""
    /\ CfgJson \in watchedFiles
    /\ Busy(CfgJson) = 0

\* C29: once unwatchConfig(path) has returned, the callback registered for path is not
\* invoked and no 'configChanged' or 'configReloadError' of that entry is emitted, a
\* reload that was awaiting its read at the time of the call included: whenever a timer
\* callback invokes the callback or emits, its path is still watched.
C29_SilentAfterUnwatch ==
    [][(/\ event'.op = "reload"
        /\ event'.cbCalls + event'.changed + event'.reloadError > 0)
          => event'.path \in watchedFiles]_vars

\* C30: for one watched file at most one reload is in flight at a time, and once the
\* notifications have stopped and every started reload has completed (the last of them
\* has just ended, no timeout is armed) the document is the decode of the content the
\* file has now: no older read completes last and overwrites the newer document.
C30_ReloadsInOrder ==
    /\ InFlight(CfgJson) <= 1
    /\ (event.op = "reload" /\ Busy(CfgJson) = 0)
          => config = decode("json", files[CfgJson]).v

(***************************************************************************)
(* Properties of loads next to sets (ReplaceSpec).                         *)
(***************************************************************************)
\* C31: the step that completes a direct load or a watch-triggered reload without an
\* error leaves exactly the document decoded from the content read, so what setConfig
\* did between the start of the load and that step is gone; a setConfig is applied to the
\* document as it is at the call, after a completion the new one.
C31_LoadReplacesWholesale ==
    [][/\ LoadSucceeded
            => \E i \in 1..Len(loads) :
                  /\ loads[i].path = event'.path /\ loads' = Remove(loads, i)
                  /\ loads[i].raw = "{\"a\":2}"
                  /\ config' = Obj(<<"a">> :> Num(2))
       /\ (event'.op = "setConfig")
            => (event'.err = "" /\ config' = Obj((event'.key :> event'.value) @@ config.m))]_vars

\* a reload has completed right after a set of b: b is gone
C31_Witness ==
    /\ event.op = "reload" /\ event.err = "" /\ event.afterSet
    /\ config = Obj(<<"a">> :> Num(2))

(***************************************************************************)
(* Properties of a save between its call and its write (SaveSpec).         *)
(***************************************************************************)
\* C32: saveConfig writes a snapshot taken at the call: the call fixes the target (the
\* argument, or the path remembered then) and the text of the document as it is then in
\* the format of the target; no setConfig, loadConfig or completion of a load changes a
\* write that is outstanding; and the write puts that text in that file, no other file
\* changing.
C32_SaveSnapshot ==
    [][/\ (event'.op = "saveConfig" /\ event'.err = "")
            => LET target == IF event'.absent THEN configPath ELSE event'.path IN
               writes' = Append(writes, [path |-> target,
                                         out |-> TextIn(detectFormat(target), config)])
       /\ (event'.op \notin {"saveConfig", "saveConfig settled"}) => writes' = writes
       /\ (event'.op = "saveConfig settled")
            => \E i \in 1..Len(writes) :
                  /\ writes' = Remove(writes, i)
                  /\ files' = [files EXCEPT ![writes[i].path] = writes[i].out]
       /\ (event'.op # "saveConfig settled") => files' = files]_vars

\* the write of a save of {} to cfg.json has taken place after a set made the document
\* {a: 1}: the file holds the text of {}
C32_Witness ==
    /\ event.op = "saveConfig settled" /\ event.path = CfgJson
    /\ files[CfgJson] = "{}"
    /\ config = A1

(***************************************************************************)
(* Properties of what a save leaves alone (FrameSpec).                     *)
(***************************************************************************)
\* C33: saveConfig changes nothing in memory: the call, whether it succeeds or fails
\* (no target, an extension without a format, a document that is no table), and the
\* write that follows leave the document, the remembered path and the watch entries as
\* they were; a call that fails starts no write and no file changes by it; the
\* remembered path changes only by a load that succeeds, so a bare saveConfig() after
\* saveConfig(Q) still goes to the path loaded last.
C33_SaveChangesNoState ==
    [][/\ (event'.op = "saveConfig")
            => /\ UNCHANGED <<config, configPath, watchVars, loads, files>>
               /\ event'.err # "" => writes' = writes
               /\ (event'.absent /\ event'.err = "") => event'.path = configPath
       /\ (event'.op = "saveConfig settled")
            => UNCHANGED <<config, configPath, watchVars, loads>>
       /\ (configPath' # configPath) => LoadSucceeded]_vars

\* a bare saveConfig() goes to cfg.json, loaded before, after a saveConfig('out.csv')
\* wrote its file, with the entry of cfg.json waiting for its timeout
C33_Witness ==
    /\ event.op = "saveConfig" /\ event.absent /\ event.err = "" /\ event.path = CfgJson
    /\ files[OutCsv] # Missing
    /\ configPath = CfgJson
    /\ CfgJson \in watchedFiles /\ timers[CfgJson] = 1

\* ---------------------------------------------------------------------
\* C34: the frame of setConfig
\* ---------------------------------------------------------------------

\* two segments address the same property: the key "0" and the index 0 are one
\* address (obj[k] converts both to the property name "0")
SameSegment(x, y) == ToPropertyKey(x) = ToPropertyKey(y)

IsPrefixOf(s, t) ==
    /\ Len(s) <= Len(t)
    /\ \A i \in 1..Len(s) : SameSegment(s[i], t[i])

Unrelated(p, q) == ~IsPrefixOf(p, q) /\ ~IsPrefixOf(q, p)

\* every intermediate node along segs exists with the kind its next segment requires
IntermediatesReady(doc, segs) ==
    \A i \in 1..(Len(segs) - 1) :
        LET node == NodeAt(doc, Prefix(segs, i))
        IN  node # Absent /\ node.t = KindFor(segs[i + 1])

OtherTopLevelKept(before, after, segs) ==
    \A name \in DOMAIN before.m \ {ToPropertyKey(segs[1])} :
        /\ after.t = "object"
        /\ name \in DOMAIN after.m
        /\ after.m[name] = before.m[name]

UnrelatedPathsKept(before, after, key, segs) ==
    \A q \in WellFormedPaths :
        Unrelated(segs, parsePath(q)) => getConfig(after, q) = getConfig(before, q)

\* C34 (first half): setConfig(P, V) with a mapping root leaves every top-level
\* key other than the first segment of P with the value it had.
C34_TopLevelFrame ==
    (/\ event.op = "setConfig"
     /\ event.before.t = "object"
     /\ parsePath(event.key) # <<>>)
        => OtherTopLevelKept(event.before, config, parsePath(event.key))

\* C34: setConfig(P, V) with a mapping root changes only the subtree under the
\* first segment of P: every other top-level key keeps its value, and when every
\* intermediate node along P exists with the container kind its next segment
\* requires, every path Q that is neither a prefix nor an extension of P resolves
\* to the same value before and after.
C34_SetChangesOnlyItsPath ==
    (/\ event.op = "setConfig"
     /\ event.before.t = "object"
     /\ parsePath(event.key) # <<>>)
        => /\ OtherTopLevelKept(event.before, config, parsePath(event.key))
           /\ IntermediatesReady(event.before, parsePath(event.key))
                => UnrelatedPathsKept(event.before, config, event.key, parsePath(event.key))

\* ---------------------------------------------------------------------
\* C35: the timers of different watch entries
\* ---------------------------------------------------------------------

TimerKept(b) == timers'[b] = timers[b] /\ debounceAge'[b] = debounceAge[b]

EntryKept(b) ==
    /\ b \in watchedFiles' <=> b \in watchedFiles
    /\ b \in watchDebounces' <=> b \in watchDebounces
    /\ callback'[b] = callback[b]
    /\ watchers'[b] = watchers[b]

\* C35: watch entries of different canonical paths have independent timers: a
\* notification for path A neither arms, resets nor fires the timer of path B (no
\* reload starts in that step), and unwatchConfig(A) neither cancels the pending
\* timer of B nor removes the entry of B.
C35_TimersIndependent ==
    [][\A a \in CanonPaths :
          /\ (\E eventType \in EventTypes : Notify(a, eventType))
                => /\ loads' = loads
                   /\ \A b \in CanonPaths \ {a} : TimerKept(b) /\ EntryKept(b)
          /\ (event'.op = "unwatchConfig" /\ event'.path = a)
                => \A b \in CanonPaths \ {a} : TimerKept(b) /\ EntryKept(b)]_vars

\* unwatchConfig(A) has cancelled the pending timer of A while the timer of B, reset
\* by a second notification, stays armed
C35_Witness ==
    \E a \in CanonPaths, b \in CanonPaths :
        /\ a # b
        /\ event.op = "unwatchConfig" /\ event.path = a /\ event.pending
        /\ timers[a] = 0
        /\ b \in watchedFiles /\ timers[b] = 1 /\ burst[b] = MaxBurst

(***************************************************************************)
(* SharedSpec: cfg.json and data.json are both watched.  Their reloads and *)
(* saveConfig() without a path meet in the one document and the one        *)
(* remembered path of the store.                                           *)
(***************************************************************************)
SharedArgs == { Rel(<<>>, "cfg", ".json"), Rel(<<>>, "data", ".json") }
SharedPaths == { Resolve(a) : a \in SharedArgs }

SharedInit ==
    /\ config = EmptyObj
    /\ configPath = NoPath
    /\ files \in [SharedPaths -> {"{\"a\":1}", "{\"a\":", "[1]"}]
    /\ \A p \in SharedPaths : files[p] \in ContentsOf(p)
    /\ watchedFiles = {}
    /\ watchDebounces = {}
    /\ callback = [p \in SharedPaths |-> NoCallback]
    /\ timers = [p \in SharedPaths |-> 0]
    /\ debounceAge = [p \in SharedPaths |-> <<>>]
    /\ loads = <<>>
    /\ burst = [p \in SharedPaths |-> 0]
    /\ owed = [p \in SharedPaths |-> 0]
    /\ watchers = [p \in SharedPaths |-> 0]
    /\ writes = <<>>
    /\ event = NoEvent
    /\ saveQueue = NewWriteQueue
    /\ logger = NoLogger

SharedWatch == \E arg \in SharedArgs : WatchConfig(arg, "cb1")
SharedNotification == \E p \in SharedPaths : timers[p] = 0 /\ Notify(p, "change")
SharedTimeout == Len(loads) < MaxDocLoads /\ \E p \in SharedPaths : TimerFire(p)
SharedSave == writes = <<>> /\ SaveConfig(NoPath)

SharedNext ==
    SharedWatch \/ SharedNotification \/ SharedTimeout \/ Read \/ Resume \/ SharedSave \/ Write

SharedSpec == SharedInit /\ [][SharedNext]_vars

\* C36: all watch entries share the one document and the one remembered path of the
\* store: a watch-triggered reload of P that succeeds replaces the whole document by
\* the content of P and makes P the remembered path, whatever path was remembered
\* before; nothing else changes the document or the remembered path, so they are those
\* of the file that reloaded last; and saveConfig() without a path writes the document
\* to the remembered path.
C36_WatchEntriesShareStore ==
    [][/\ (event'.op = "reload" /\ event'.err = "")
            => \E i \in 1..Len(loads) :
                  /\ loads' = Remove(loads, i)
                  /\ loads[i].origin = "watch" /\ loads[i].path = event'.path
                  /\ config' = decode("json", loads[i].raw).v
                  /\ configPath' = event'.path
       /\ ~(event'.op = "reload" /\ event'.err = "")
            => (config' = config /\ configPath' = configPath)
       /\ (event'.op = "saveConfig" /\ event'.err = "")
            => /\ event'.absent /\ event'.path = configPath
               /\ writes' = Append(writes, [path |-> configPath,
                                            out |-> encode("json", config).text])]_vars

\* data.json has reloaded while the write of a saveConfig() made when cfg.json was the
\* remembered path is outstanding: the document and the path are those of data.json
C36_Witness ==
    /\ event.op = "reload" /\ event.err = "" /\ event.path = DataJson
    /\ SharedPaths \subseteq watchedFiles
    /\ writes # <<>> /\ writes[1].path = CfgJson /\ writes[1].out = "{\n  \"a\": 1\n}"
    /\ configPath = DataJson /\ config = Arr(<<Num(1)>>)

\* ---------------------------------------------------------------------
\* C39: the keys of the watcher map and of the canceller map
\* ---------------------------------------------------------------------

\* C39: in every reachable state this._watchedFiles and this._watchDebounces have the
\* same keys, and a watchConfig that fails because fs.watch cannot open the watcher
\* adds a key to neither and leaves no watcher open.
C39_SameKeys ==
    /\ [](watchedFiles = watchDebounces)
    /\ [][(event'.op = "watchConfig" /\ event'.err # "")
             => /\ watchedFiles' = watchedFiles /\ watchDebounces' = watchDebounces
                /\ watchers' = watchers /\ callback' = callback
                /\ event'.path \notin watchedFiles']_vars

\* watchConfig(notes.txt) has failed with no file to watch while cfg.json is watched
\* with its timer armed: notes.txt has a key in neither map
C39_Witness ==
    /\ event.op = "watchConfig" /\ event.err = "ENOENT" /\ event.path = NotesTxt
    /\ watchedFiles = {CfgJson} /\ watchDebounces = {CfgJson}
    /\ watchers[NotesTxt] = 0 /\ timers[CfgJson] = 1

(***************************************************************************)
(* QueueSpec: saveData calls, the steps of their tasks and the resumption  *)
(* of process() after each task.  QueueFairSpec adds that a task which can *)
(* take its next step takes it (every task terminates) and that process()  *)
(* resumes once the task it awaits has settled (the job queue runs).       *)
(***************************************************************************)
QueueInit ==
    /\ config = EmptyObj
    /\ files = [p \in CanonPaths |-> Missing]
    /\ InitService

\* saveData(data): writeQueue.add of a new task
SaveData ==
    \E id \in Tasks, isArray \in BOOLEAN :
        /\ saveQueue.promise[id] = "none"
        /\ \A j \in 1..(id - 1) : saveQueue.promise[j] # "none"
        /\ saveQueue' = add(saveQueue, id, isArray)
        /\ UNCHANGED <<serviceVars, logger>>

\* readFile of the running task completes
TaskReads ==
    \E failed \in BOOLEAN :
        /\ saveQueue.current # 0
        /\ saveQueue.task[saveQueue.current] = "reading"
        /\ saveQueue' = taskRead(saveQueue, failed)
        /\ UNCHANGED <<serviceVars, logger>>

\* atomicWrite of the running task completes
TaskWrites ==
    \E failed \in BOOLEAN :
        /\ saveQueue.current # 0
        /\ saveQueue.task[saveQueue.current] = "writing"
        /\ saveQueue' = taskWrite(saveQueue, failed)
        /\ UNCHANGED <<serviceVars, logger>>

\* process() resumes after the await of a settled task
QueueResume ==
    /\ saveQueue.current # 0
    /\ saveQueue.task[saveQueue.current] \in {"ok", "failed"}
    /\ saveQueue' = processResume(saveQueue)
    /\ UNCHANGED <<serviceVars, logger>>

QueueNext == SaveData \/ TaskReads \/ TaskWrites \/ QueueResume

QueueSpec == QueueInit /\ [][QueueNext]_vars

QueueFairSpec ==
    QueueSpec /\ WF_vars(TaskReads) /\ WF_vars(TaskWrites) /\ WF_vars(QueueResume)

Running == { id \in Tasks : saveQueue.task[id] \in {"reading", "writing"} }

Settled(id) == saveQueue.promise[id] \in {"fulfilled", "rejected"}

\* C37: the WriteQueue runs the tasks one at a time in the order they were added: at
\* most one task is running; tasks are started in the order of the add calls; a task
\* starts only when every task added before it has settled; a promise returned by add
\* is fulfilled or rejected only as its own task ended; and, every task terminating,
\* every promise returned by add settles, so that a task that rejects holds back no
\* later task and a task added while the queue is draining is not left behind.
C37_QueueSerial ==
    /\ [](Cardinality(Running) <= 1)
    /\ [](\A i \in 1..Len(saveQueue.started) : saveQueue.started[i] = i)
    /\ [](\A id \in Tasks :
            /\ saveQueue.promise[id] = "fulfilled" => saveQueue.task[id] = "ok"
            /\ saveQueue.promise[id] = "rejected" => saveQueue.task[id] = "failed")
    /\ [][\A id \in Tasks :
            (saveQueue.task[id] = "queued" /\ saveQueue'.task[id] = "reading")
                => \A j \in 1..(id - 1) :
                      saveQueue.task[j] \in {"ok", "failed"} /\ Settled(j)']_vars
    /\ \A id \in Tasks : (saveQueue.promise[id] = "pending") ~> Settled(id)

\* the first task was rejected, the second runs after it, and the third, added while
\* the queue was draining, waits in the queue
C37_Witness ==
    /\ saveQueue.promise[1] = "rejected"
    /\ saveQueue.task[2] = "writing" /\ saveQueue.current = 2
    /\ saveQueue.queue = <<3>> /\ saveQueue.processing

(***************************************************************************)
(* LoggerSpec: log calls, initLogger, closeLogger and the callbacks of the *)
(* stream writes, in any order.  LoggerFairSpec adds that a write handed   *)
(* to a stream is completed: its callback runs, also after end().          *)
(***************************************************************************)
LoggerInit ==
    /\ config = EmptyObj
    /\ files = [p \in CanonPaths |-> Missing]
    /\ InitService

\* logInfo, logError or logAction: they differ in the text of the entry only
Log ==
    \E id \in Entries :
        /\ logger.promise[id] = "none"
        /\ \A j \in 1..(id - 1) : logger.promise[j] # "none"
        /\ logger' = enqueueWriteLogEntry(logger, id)
        /\ UNCHANGED <<serviceVars, saveQueue>>

\* a stream calls the callback of one of its writes, with or without an error
WriteCallback ==
    \E w \in logger.outstanding, err \in BOOLEAN :
        /\ logger' = writeCallback(logger, w, err)
        /\ UNCHANGED <<serviceVars, saveQueue>>

InitLogger ==
    /\ logger.opened < MaxStreams
    /\ logger' = initLogger(logger)
    /\ UNCHANGED <<serviceVars, saveQueue>>

CloseLogger ==
    /\ logger' = closeLogger(logger)
    /\ UNCHANGED <<serviceVars, saveQueue>>

LoggerNext == Log \/ WriteCallback \/ InitLogger \/ CloseLogger

LoggerSpec == LoggerInit /\ [][LoggerNext]_vars

LoggerFairSpec == LoggerSpec /\ WF_vars(WriteCallback)

\* at most one write handed to a stream has not had its callback
OneWriteOutstanding == Cardinality(logger.outstanding) <= 1

\* an entry whose promise is pending is in the queue or in a write of a stream
PendingIsHeld ==
    \A id \in Entries :
        logger.promise[id] = "pending"
            => \/ \E i \in 1..Len(logger.writeQueue) : logger.writeQueue[i] = id
               \/ \E w \in logger.outstanding : w.entry = id

\* C38: every promise returned by logInfo, logError or logAction eventually settles,
\* and at most one stream write is outstanding at any time, under any interleaving of
\* the log calls with initLogger and closeLogger.
C38_LogSettlesOneWrite ==
    /\ []OneWriteOutstanding
    /\ \A id \in Entries :
          (logger.promise[id] # "none") ~> (returned(logger.promise[id]) = "fulfilled")

====
